---- MODULE Spec2Model ----
(***************************************************************************)
(* BB84 quantum key distribution simulator (qwertystars/BB84).             *)
(*                                                                         *)
(* backend/utils.py            randomness, channel noise, sifting, QBER    *)
(* backend/simulations/*.py    the five scenario orchestrators             *)
(* backend/main.py             simulate_bb84 and the HTTP handlers that    *)
(*                             share the latest_results slot               *)
(*                                                                         *)
(* Conventions of the model                                                *)
(*   - a float in [0,1] that is an argument (error_rate, eve_fraction,     *)
(*     noise_level) or a uniform draw is an integer number of hundredths;  *)
(*   - a QBER is the exact fraction [num, den] in lowest terms;            *)
(*   - an Optional[int] is <<>> (None) or <<s>>;                           *)
(*   - numpy's global generator is a deterministic stream: its state is    *)
(*     the cyclic sequence of the raw words it will produce next.          *)
(*     np.random.seed(s) replaces the state by a fixed function of s; at   *)
(*     process start the state is any stream (seeded from OS entropy).     *)
(*   - an expected_qber is an integer number of ten-thousandths            *)
(*     (0.25 * eve_fraction is not a whole number of hundredths);          *)
(*   - wall-clock fields (execution_time) are left out.                    *)
(***************************************************************************)
EXTENDS Integers, Sequences, FiniteSets, TLC

(***************************************************************************)
(* Bounds                                                                  *)
(***************************************************************************)
\* period of the modelled generator stream
Period == 7
\* largest qubit_count / n_qubits an invocation is given
MaxQubits == 3
\* largest seed value a caller passes
MaxSeed == 1
\* longest array handed directly to the utils functions
MaxLen == 2

RawWords == {0, 1}
Bit == {0, 1}
QubitCounts == 1..MaxQubits
Seeds == 0..MaxSeed
OptSeeds == {<<>>} \cup {<<s>> : s \in Seeds}
ErrorRates == {0, 5, 50}
EveFractions == {0, 50, 100}
NoiseLevels == {0, 50}

(***************************************************************************)
(* numpy global generator                                                  *)
(***************************************************************************)
AllStreams == [1..Period -> RawWords]

\* the k-th word the generator in state r will produce (k >= 1)
Word(r, k) == r[((k - 1) % Period) + 1]

\* the state after k words were consumed
Advance(r, k) == [i \in 1..Period |-> Word(r, i + k)]

\* np.random.seed(s): the state is a fixed function of the seed
np_random_seed(s) == [i \in 1..Period |-> (((s + 2) * (i * i + s) + i) \div 3) % 2]

\* np.random.randint(0, 2, n): n bits, one word each
np_random_randint(r, n) ==
    [val |-> [i \in 1..n |-> Word(r, i) % 2], rng |-> Advance(r, n)]

\* np.random.random(n): n uniform samples of [0,1), in hundredths
np_random_random(r, n) ==
    [val |-> [i \in 1..n |-> Word(r, i) * 50], rng |-> Advance(r, n)]

generate_random_bits(r, length) == np_random_randint(r, length)

generate_random_bases(r, length) == np_random_randint(r, length)

(***************************************************************************)
(* numpy array operations used by utils.py                                 *)
(***************************************************************************)
\* s[lo] + ... + s[hi], summed by halves
RECURSIVE SumRange(_, _, _)
SumRange(s, lo, hi) ==
    IF lo > hi THEN 0
    ELSE IF lo = hi THEN s[lo]
    ELSE LET mid == (lo + hi) \div 2 IN SumRange(s, lo, mid) + SumRange(s, mid + 1, hi)

SumFrom(s, k) == SumRange(s, k, Len(s))

SeqSum(s) == SumFrom(s, 1)

\* arr with arr[i] replaced by v
Store(arr, i, v) == SubSeq(arr, 1, i - 1) \o <<v>> \o SubSeq(arr, i + 1, Len(arr))

RECURSIVE Gcd(_, _)
Gcd(a, b) == IF b = 0 THEN a ELSE Gcd(b, a % b)

\* a Python float that is the quotient of two small integers
Fraction(n, d) == LET g == Gcd(n, d) IN [num |-> n \div g, den |-> d \div g]

Zero == [num |-> 0, den |-> 1]

\* 0 / 0 on numpy scalars: nan (with a warning, no exception)
NaN == [num |-> 0, den |-> 0]

\* q < h/100, q > h/100 for a fraction q and a literal in hundredths
QLt(q, h) == q.num * 100 < h * q.den
QGt(q, h) == q.num * 100 > h * q.den

Ok(v) == [raised |-> "none", value |-> v]
Raise(e) == [raised |-> e]

\* arr1 == arr2 on one-dimensional arrays: elementwise, a length-1 operand
\* broadcasts, any other pair of different lengths raises ValueError
array_eq(a, b) ==
    IF Len(a) = Len(b) THEN Ok([i \in 1..Len(a) |-> a[i] = b[i]])
    ELSE IF Len(a) = 1 THEN Ok([i \in 1..Len(b) |-> a[1] = b[i]])
    ELSE IF Len(b) = 1 THEN Ok([i \in 1..Len(a) |-> a[i] = b[1]])
    ELSE Raise("ValueError")

\* the selected elements of a[lo..hi], gathered by halves
RECURSIVE SelectRange(_, _, _, _)
SelectRange(a, mask, lo, hi) ==
    IF lo > hi THEN <<>>
    ELSE IF lo = hi THEN (IF mask[lo] THEN <<a[lo]>> ELSE <<>>)
    ELSE LET mid == (lo + hi) \div 2
         IN  SelectRange(a, mask, lo, mid) \o SelectRange(a, mask, mid + 1, hi)

SelectFrom(a, mask, k) == SelectRange(a, mask, k, Len(a))

\* the elements of a at the positions where mask is true, in order
Select(a, mask) == SelectFrom(a, mask, 1)

\* an index that keeps every element, whatever the mask
mask_index_keeps_all(a, mask) ==
    IF Len(a) = Len(mask) THEN Ok(a) ELSE Raise("IndexError")

\* arr[mask] with a boolean mask: the mask must be as long as the array
mask_index(a, mask) ==
    IF Len(a) = Len(mask) THEN Ok(Select(a, mask)) ELSE Raise("IndexError")

\* np.sum over a boolean array
np_sum(mask) == SeqSum([i \in 1..Len(mask) |-> IF mask[i] THEN 1 ELSE 0])

\* str(b) for a bit
Str(b) == IF b = 0 THEN "0" ELSE "1"

\* ''.join(map(str, bits)): the key string as its sequence of characters
join_str(bits) == [i \in 1..Len(bits) |-> Str(bits[i])]

(***************************************************************************)
(* backend/utils.py                                                        *)
(***************************************************************************)
\* compare_arrays counting the positions that agree instead of those that differ
compare_arrays_counts_equal(arr1, arr2) ==
    IF Len(arr1) # Len(arr2) THEN Raise("ValueError")
    ELSE IF Len(arr1) = 0 THEN Ok(NaN)
    ELSE Ok(Fraction(np_sum([i \in 1..Len(arr1) |-> arr1[i] = arr2[i]]), Len(arr1)))

compare_arrays(arr1, arr2) ==
    IF Len(arr1) # Len(arr2) THEN Raise("ValueError")
    ELSE IF Len(arr1) = 0 THEN Ok(NaN)
    ELSE Ok(Fraction(np_sum([i \in 1..Len(arr1) |-> arr1[i] # arr2[i]]), Len(arr1)))

\* sift_key taking the key from Bob's bits
sift_key_from_bob(alice_bits, bob_bits, alice_bases, bob_bases) ==
    LET matching_bases == array_eq(alice_bases, bob_bases) IN
    IF matching_bases.raised # "none" THEN matching_bases
    ELSE LET sifted_bits == mask_index(bob_bits, matching_bases.value) IN
         IF sifted_bits.raised # "none" THEN sifted_bits
         ELSE Ok([key |-> join_str(sifted_bits.value), mask |-> matching_bases.value])

sift_key(alice_bits, bob_bits, alice_bases, bob_bases) ==
    LET matching_bases == array_eq(alice_bases, bob_bases) IN
    IF matching_bases.raised # "none" THEN matching_bases
    ELSE LET sifted_bits == mask_index(alice_bits, matching_bases.value) IN
         IF sifted_bits.raised # "none" THEN sifted_bits
         ELSE Ok([key |-> join_str(sifted_bits.value), mask |-> matching_bases.value])

\* calculate_qber comparing every position, sifted or not
calculate_qber_unsifted(alice_bits, bob_bits, matching_bases) ==
    IF np_sum(matching_bases) = 0 THEN Ok(Zero)
    ELSE compare_arrays(alice_bits, bob_bits)

calculate_qber(alice_bits, bob_bits, matching_bases) ==
    IF np_sum(matching_bases) = 0 THEN Ok(Zero)
    ELSE LET alice_matched == mask_index(alice_bits, matching_bases)
             bob_matched == mask_index(bob_bits, matching_bases) IN
         IF alice_matched.raised # "none" THEN alice_matched
         ELSE IF bob_matched.raised # "none" THEN bob_matched
         ELSE compare_arrays(alice_matched.value, bob_matched.value)

\* Arrays are objects: a function's arrays live in a heap (a sequence of
\* arrays) and its variables hold references (indices) into it, so that a
\* write through one variable shows through every variable bound to the same
\* object.
\* `b = a` : no new object, the same reference
ndarray_copy_aliased(heap, ref) == [heap |-> heap, ref |-> ref]

\* `b = a.copy()` : a new object with the elements of a
ndarray_copy(heap, ref) == [heap |-> Append(heap, heap[ref]), ref |-> Len(heap) + 1]

\* a channel that also flips at a draw equal to error_rate
apply_channel_error_inclusive(r, qubits, error_rate) ==
    LET d == np_random_random(r, Len(qubits)) IN
    [val |-> [i \in 1..Len(qubits) |->
                 IF d.val[i] <= error_rate THEN 1 - qubits[i] ELSE qubits[i]],
     qubits |-> qubits, rng |-> d.rng]

\* a channel that draws its samples and flips nothing
apply_channel_error_no_flip(r, qubits, error_rate) ==
    [val |-> qubits, qubits |-> qubits, rng |-> np_random_random(r, Len(qubits)).rng]

\* noisy_qubits = qubits.copy(); error_positions = np.random.random(len(qubits))
\* < error_rate; noisy_qubits[error_positions] = 1 - noisy_qubits[error_positions].
\* val is the returned array, qubits the caller's array after the call.
apply_channel_error(r, qubits, error_rate) ==
    LET cp == ndarray_copy(<<qubits>>, 1)
        d == np_random_random(r, Len(qubits))
        noisy_qubits == cp.heap[cp.ref]
        flipped == [i \in 1..Len(qubits) |->
                       IF d.val[i] < error_rate THEN 1 - noisy_qubits[i]
                       ELSE noisy_qubits[i]]
        heap == Store(cp.heap, cp.ref, flipped)
    IN  [val |-> heap[cp.ref], qubits |-> heap[1], rng |-> d.rng]

(***************************************************************************)
(* backend/simulations/*.py                                                *)
(***************************************************************************)
\* sifted_key_str[:100] + "..." if len(sifted_key_str) > 100 else sifted_key_str
KeyCap == 100
Truncate(key) ==
    IF Len(key) > KeyCap THEN SubSeq(key, 1, KeyCap) \o <<".", ".", ".">> ELSE key

\* a loop body that disturbs every intercepted position, whatever Eve's basis
eve_step_any_basis(i, c, acc) ==
    IF c.eve_intercepts[i]
    THEN LET u == np_random_random(acc.rng, 1) IN
         IF u.val[1] < 50
         THEN [rng |-> u.rng,
               heap |-> Store(acc.heap, c.eve_bits,
                              Store(acc.heap[c.eve_bits], i,
                                    1 - acc.heap[c.alice_bits][i])),
               eve_caused_error |-> Store(acc.eve_caused_error, i, TRUE)]
         ELSE [rng |-> u.rng, heap |-> acc.heap,
               eve_caused_error |-> acc.eve_caused_error]
    ELSE acc

\* the for-loop of Eve's intercept-resend attack; one np.random.random() is
\* drawn only at an intercepted position whose bases differ
eve_step(i, c, acc) ==
    IF c.eve_intercepts[i] /\ c.alice_bases[i] # c.eve_bases[i]
    THEN LET u == np_random_random(acc.rng, 1) IN
         IF u.val[1] < 50
         THEN [rng |-> u.rng,
               heap |-> Store(acc.heap, c.eve_bits,
                              Store(acc.heap[c.eve_bits], i,
                                    1 - acc.heap[c.alice_bits][i])),
               eve_caused_error |-> Store(acc.eve_caused_error, i, TRUE)]
         ELSE [rng |-> u.rng, heap |-> acc.heap,
               eve_caused_error |-> acc.eve_caused_error]
    ELSE acc

\* iterations lo..hi of the loop, in order: the first half is finished (its
\* arrays keep their length) before the second half starts
RECURSIVE eve_range(_, _, _, _)
eve_range(lo, hi, c, acc) ==
    IF lo > hi THEN acc
    ELSE IF lo = hi THEN eve_step(lo, c, acc)
    ELSE LET mid == (lo + hi) \div 2
             left == eve_range(lo, mid, c, acc)
         IN  IF Len(left.eve_caused_error) = c.n
             THEN eve_range(mid + 1, hi, c, left)
             ELSE left

eve_loop(i, c, acc) == eve_range(i, c.n, c, acc)

\* an Eve stage that draws its interception flags before its bases
eve_intercept_resend_flags_first(r, alice_bits, alice_bases, qubit_count, eve_fraction) ==
    LET cp == ndarray_copy(<<alice_bits>>, 1)
        ei == np_random_random(r, qubit_count)
        eb == generate_random_bases(ei.rng, qubit_count)
        eve_intercepts == [i \in 1..qubit_count |-> ei.val[i] < eve_fraction]
        out == eve_loop(1,
                   [n |-> qubit_count, alice_bits |-> 1, eve_bits |-> cp.ref,
                    alice_bases |-> alice_bases, eve_bases |-> eb.val,
                    eve_intercepts |-> eve_intercepts],
                   [rng |-> eb.rng, heap |-> cp.heap,
                    eve_caused_error |-> [i \in 1..qubit_count |-> FALSE]])
    IN  [eve_bases |-> eb.val, eve_intercepts |-> eve_intercepts,
         alice_bits |-> out.heap[1],
         eve_bits |-> out.heap[cp.ref], eve_caused_error |-> out.eve_caused_error,
         rng |-> out.rng]

\* Eve's stage as written in error_with_eve.py, decoherence_free.py and
\* detailed.py: eve_bits = alice_bits.copy(), Eve's bases, the interception
\* flags, then the loop.  alice_bits in the result is the caller's array
\* after the stage.
eve_intercept_resend(r, alice_bits, alice_bases, qubit_count, eve_fraction) ==
    LET cp == ndarray_copy(<<alice_bits>>, 1)
        eb == generate_random_bases(r, qubit_count)
        ei == np_random_random(eb.rng, qubit_count)
        eve_intercepts == [i \in 1..qubit_count |-> ei.val[i] < eve_fraction]
        out == eve_loop(1,
                   [n |-> qubit_count, alice_bits |-> 1, eve_bits |-> cp.ref,
                    alice_bases |-> alice_bases, eve_bases |-> eb.val,
                    eve_intercepts |-> eve_intercepts],
                   [rng |-> ei.rng, heap |-> cp.heap,
                    eve_caused_error |-> [i \in 1..qubit_count |-> FALSE]])
    IN  [eve_bases |-> eb.val, eve_intercepts |-> eve_intercepts,
         alice_bits |-> out.heap[1],
         eve_bits |-> out.heap[cp.ref], eve_caused_error |-> out.eve_caused_error,
         rng |-> out.rng]

\* a contribution that counts every wrong-basis interception as an error
eve_qber_contribution_wrong_basis(eve_fraction) == 50 * eve_fraction

\* eve_qber_contribution = 0.25 * eve_fraction, in ten-thousandths
eve_qber_contribution(eve_fraction) == 25 * eve_fraction

\* what a scenario function hands back: the returned dict (ret), the local
\* arrays it was computed from (loc) and the generator state it leaves (rng)
Returned(fn, ret, loc, r) ==
    [fn |-> fn, raised |-> "none", ret |-> ret, loc |-> loc, rng |-> r]
Raised(fn, e, r) == [fn |-> fn, raised |-> e, rng |-> r]

simulate_ideal(r, qubit_count, kwargs) ==
    LET a == generate_random_bits(r, qubit_count)
        ab == generate_random_bases(a.rng, qubit_count)
        bb == generate_random_bases(ab.rng, qubit_count)
        cp == ndarray_copy(<<a.val>>, 1)
        alice_bits == cp.heap[1]
        bob_bits == cp.heap[cp.ref]
        s == sift_key(alice_bits, bob_bits, ab.val, bb.val)
        q == calculate_qber(alice_bits, bob_bits, s.value.mask)
    IN  IF s.raised # "none" THEN Raised("simulate_ideal", s.raised, bb.rng)
        ELSE IF q.raised # "none" THEN Raised("simulate_ideal", q.raised, bb.rng)
        ELSE Returned("simulate_ideal",
                 [scenario |-> "ideal",
                  qubit_count |-> qubit_count,
                  sifted_key |-> Truncate(s.value.key),
                  sifted_key_length |-> Len(s.value.key),
                  qber |-> q.value,
                  error_rate |-> 0,
                  eve_fraction |-> 0,
                  summary |-> [total_qubits |-> qubit_count,
                               matching_bases |-> np_sum(s.value.mask),
                               sifted_key_length |-> Len(s.value.key),
                               expected_qber |-> 0,
                               actual_qber |-> q.value,
                               protocol_status |-> "Perfect - No errors detected",
                               security_level |-> "Maximum (No eavesdropping)"]],
                 [alice_drawn |-> a.val, alice_bits |-> alice_bits, alice_bases |-> ab.val,
                  bob_bases |-> bb.val, bob_bits |-> bob_bits,
                  matching_bases |-> s.value.mask, key |-> s.value.key],
                 bb.rng)

simulate_error_only(r, qubit_count, error_rate, kwargs) ==
    LET a == generate_random_bits(r, qubit_count)
        ab == generate_random_bases(a.rng, qubit_count)
        bb == generate_random_bases(ab.rng, qubit_count)
        noisy == apply_channel_error(bb.rng, a.val, error_rate)
        alice_bits == noisy.qubits
        bob_bits == noisy.val
        s == sift_key(alice_bits, bob_bits, ab.val, bb.val)
        q == calculate_qber(alice_bits, bob_bits, s.value.mask)
    IN  IF s.raised # "none" THEN Raised("simulate_error_only", s.raised, noisy.rng)
        ELSE IF q.raised # "none" THEN Raised("simulate_error_only", q.raised, noisy.rng)
        ELSE Returned("simulate_error_only",
                 [scenario |-> "error-only",
                  qubit_count |-> qubit_count,
                  sifted_key |-> Truncate(s.value.key),
                  sifted_key_length |-> Len(s.value.key),
                  qber |-> q.value,
                  error_rate |-> error_rate,
                  eve_fraction |-> 0,
                  summary |-> [total_qubits |-> qubit_count,
                               matching_bases |-> np_sum(s.value.mask),
                               sifted_key_length |-> Len(s.value.key),
                               channel_error_rate |-> error_rate,
                               expected_qber |-> error_rate * 100,
                               actual_qber |-> q.value,
                               protocol_status |->
                                   IF QGt(q.value, 5) THEN "Channel noise present"
                                   ELSE "Good quality channel",
                               security_level |-> "Secure (No eavesdropping)"]],
                 [alice_drawn |-> a.val, alice_bits |-> alice_bits, alice_bases |-> ab.val,
                  bob_bases |-> bb.val, bob_bits |-> bob_bits,
                  matching_bases |-> s.value.mask, key |-> s.value.key],
                 noisy.rng)

\* simulate_error_with_eve from Bob's bases on (Steps 3 to 6 and the result),
\* given Alice's drawn bits, her bases and the outcome of Eve's stage
error_with_eve_receive(qubit_count, error_rate, eve_fraction, alice_drawn, alice_bases, eve) ==
    LET alice_bits == eve.alice_bits
        bb == generate_random_bases(eve.rng, qubit_count)
        final == apply_channel_error(bb.rng, eve.eve_bits, error_rate)
        bob_bits == final.val
        s == sift_key(alice_bits, bob_bits, alice_bases, bb.val)
        q == calculate_qber(alice_bits, bob_bits, s.value.mask)
        expected_qber == error_rate * 100 + eve_qber_contribution(eve_fraction)
        eve_detected == QGt(q.value, error_rate + 10)
    IN  IF s.raised # "none" THEN Raised("simulate_error_with_eve", s.raised, final.rng)
        ELSE IF q.raised # "none" THEN Raised("simulate_error_with_eve", q.raised, final.rng)
        ELSE Returned("simulate_error_with_eve",
                 [scenario |-> "error-eve",
                  qubit_count |-> qubit_count,
                  sifted_key |-> Truncate(s.value.key),
                  sifted_key_length |-> Len(s.value.key),
                  qber |-> q.value,
                  error_rate |-> error_rate,
                  eve_fraction |-> eve_fraction,
                  summary |-> [total_qubits |-> qubit_count,
                               matching_bases |-> np_sum(s.value.mask),
                               sifted_key_length |-> Len(s.value.key),
                               channel_error_rate |-> error_rate,
                               eve_fraction |-> eve_fraction,
                               expected_qber |-> expected_qber,
                               actual_qber |-> q.value,
                               eve_detected |-> eve_detected,
                               protocol_status |->
                                   IF eve_detected THEN "Eavesdropping detected"
                                   ELSE "Eavesdropping may be present",
                               security_level |->
                                   IF QGt(q.value, 15) THEN "Compromised"
                                   ELSE "Potentially secure"]],
                 [alice_drawn |-> alice_drawn, alice_bits |-> alice_bits, alice_bases |-> alice_bases,
                  eve_bases |-> eve.eve_bases, eve_intercepts |-> eve.eve_intercepts,
                  eve_bits |-> eve.eve_bits,
                  bob_bases |-> bb.val, bob_bits |-> bob_bits,
                  matching_bases |-> s.value.mask, key |-> s.value.key],
                 final.rng)

simulate_error_with_eve(r, qubit_count, error_rate, eve_fraction, kwargs) ==
    LET a == generate_random_bits(r, qubit_count)
        ab == generate_random_bases(a.rng, qubit_count)
        eve == eve_intercept_resend(ab.rng, a.val, ab.val, qubit_count, eve_fraction)
    IN  error_with_eve_receive(qubit_count, error_rate, eve_fraction, a.val, ab.val, eve)

\* simulate_decoherence_free from Bob's bases on (Steps 3 to 6 and the result),
\* given Alice's drawn bits, her bases and the outcome of Eve's stage
decoherence_free_receive(qubit_count, error_rate, eve_fraction, alice_drawn, alice_bases, eve) ==
    LET alice_bits == eve.alice_bits
        bb == generate_random_bases(eve.rng, qubit_count)
        final_bits == eve.eve_bits
        bob_bits == final_bits
        s == sift_key(alice_bits, bob_bits, alice_bases, bb.val)
        q == calculate_qber(alice_bits, bob_bits, s.value.mask)
        expected_qber == eve_qber_contribution(eve_fraction)
    IN  IF s.raised # "none" THEN Raised("simulate_decoherence_free", s.raised, bb.rng)
        ELSE IF q.raised # "none" THEN Raised("simulate_decoherence_free", q.raised, bb.rng)
        ELSE Returned("simulate_decoherence_free",
                 [scenario |-> "decoherence-free",
                  qubit_count |-> qubit_count,
                  sifted_key |-> Truncate(s.value.key),
                  sifted_key_length |-> Len(s.value.key),
                  qber |-> q.value,
                  error_rate |-> error_rate,
                  eve_fraction |-> eve_fraction,
                  summary |-> [total_qubits |-> qubit_count,
                               matching_bases |-> np_sum(s.value.mask),
                               sifted_key_length |-> Len(s.value.key),
                               decoherence_factor |-> 0,
                               eve_fraction |-> eve_fraction,
                               expected_qber |-> expected_qber,
                               actual_qber |-> q.value,
                               eve_detected |-> QGt(q.value, 10),
                               quantum_coherence |-> "Preserved from environmental noise",
                               protocol_status |->
                                   "Environmental decoherence eliminated, but Eve detection possible",
                               security_level |->
                                   IF eve_fraction > 0
                                   THEN "Protected from noise, vulnerable to eavesdropping"
                                   ELSE "Maximum security (no eavesdropping)"]],
                 [alice_drawn |-> alice_drawn, alice_bits |-> alice_bits, alice_bases |-> alice_bases,
                  eve_bases |-> eve.eve_bases, eve_intercepts |-> eve.eve_intercepts,
                  eve_bits |-> eve.eve_bits,
                  bob_bases |-> bb.val, bob_bits |-> bob_bits,
                  matching_bases |-> s.value.mask, key |-> s.value.key],
                 bb.rng)

simulate_decoherence_free(r, qubit_count, error_rate, eve_fraction, kwargs) ==
    LET a == generate_random_bits(r, qubit_count)
        ab == generate_random_bases(a.rng, qubit_count)
        eve == eve_intercept_resend(ab.rng, a.val, ab.val, qubit_count, eve_fraction)
    IN  decoherence_free_receive(qubit_count, error_rate, eve_fraction, a.val, ab.val, eve)

\* "Z"/"X" label of a 0/1 basis
BasisName(b) == IF b = 0 THEN "Z" ELSE "X"

get_quantum_state(bit, basis) ==
    IF basis = 0 THEN (IF bit = 0 THEN "|0>" ELSE "|1>")
    ELSE (IF bit = 0 THEN "|+>" ELSE "|->")

\* a measurement that hands Bob the transmitted bit whatever his basis
bob_step_tracks_bit(i, c, acc) ==
    [rng |-> acc.rng, bob_bits |-> Store(acc.bob_bits, i, c.final_bits[i])]

\* Bob's measuring loop of simulate_detailed: the transmitted bit on matching
\* bases, else one np.random.randint(0, 2)
bob_step(i, c, acc) ==
    IF c.bases_match[i]
    THEN [rng |-> acc.rng, bob_bits |-> Store(acc.bob_bits, i, c.final_bits[i])]
    ELSE LET d == np_random_randint(acc.rng, 1) IN
         [rng |-> d.rng, bob_bits |-> Store(acc.bob_bits, i, d.val[1])]

\* iterations lo..hi of the loop, in order: the first half is finished (its
\* array keeps its length) before the second half starts
RECURSIVE bob_range(_, _, _, _)
bob_range(lo, hi, c, acc) ==
    IF lo > hi THEN acc
    ELSE IF lo = hi THEN bob_step(lo, c, acc)
    ELSE LET mid == (lo + hi) \div 2
             left == bob_range(lo, mid, c, acc)
         IN  IF Len(left.bob_bits) = c.n
             THEN bob_range(mid + 1, hi, c, left)
             ELSE left

bob_loop(i, c, acc) == bob_range(i, c.n, c, acc)

DetailCap == 20
\* a minimum that returns its first argument
Min_first(a, b) == a

Min(a, b) == IF a < b THEN a ELSE b

\* the detailed analysis and the result of simulate_detailed, given the
\* arrays of the run and the generator state it leaves
detailed_result(qubit_count, error_rate, eve_fraction, alice_drawn, alice_bases, eve, bob_bases, channel_errors, final_bits, bases_match, bob) ==
    LET alice_bits == eve.alice_bits
        bob_bits == bob.bob_bits
        bits_match == [i \in 1..qubit_count |-> alice_bits[i] = bob_bits[i]]
        qubits_detail == [i \in 1..qubit_count |->
            [index |-> i - 1,
             alice_bit |-> alice_bits[i],
             alice_basis |-> BasisName(alice_bases[i]),
             alice_state |-> get_quantum_state(alice_bits[i], alice_bases[i]),
             eve_intercepted |-> eve.eve_intercepts[i],
             eve_basis |-> IF eve.eve_bases[i] = 0 THEN <<"Z">>
                           ELSE IF eve_fraction > 0 THEN <<"X">> ELSE <<>>,
             eve_measured |-> IF eve.eve_intercepts[i] THEN <<eve.eve_bits[i]>> ELSE <<>>,
             eve_caused_error |-> eve.eve_caused_error[i],
             bob_basis |-> BasisName(bob_bases[i]),
             bob_measured |-> bob_bits[i],
             bases_match |-> bases_match[i],
             bits_match |-> bits_match[i],
             channel_error |-> channel_errors[i],
             kept_in_key |-> bases_match[i]]]
        s == sift_key(alice_bits, bob_bits, alice_bases, bob_bases)
        q == calculate_qber(alice_bits, bob_bits, s.value.mask)
        not_match == [i \in 1..qubit_count |-> ~bases_match[i]]
        matching_bases_count == np_sum(bases_match)
        correct_when_matched ==
            np_sum([i \in 1..qubit_count |-> bits_match[i] /\ bases_match[i]])
        correct_when_not_matched ==
            IF np_sum(not_match) > 0
            THEN np_sum([i \in 1..qubit_count |-> bits_match[i] /\ not_match[i]]) ELSE 0
        not_matched_count == IF np_sum(not_match) > 0 THEN np_sum(not_match) ELSE 0
    IN  IF s.raised # "none" THEN Raised("simulate_detailed", s.raised, bob.rng)
        ELSE IF q.raised # "none" THEN Raised("simulate_detailed", q.raised, bob.rng)
        ELSE Returned("simulate_detailed",
                 [scenario |-> "detailed",
                  qubit_count |-> qubit_count,
                  qubits |-> qubits_detail,
                  sifted_key |-> s.value.key,
                  sifted_key_length |-> Len(s.value.key),
                  qber |-> q.value,
                  error_rate |-> error_rate,
                  eve_fraction |-> eve_fraction,
                  summary |-> [total_qubits |-> qubit_count,
                               matching_bases |-> matching_bases_count,
                               non_matching_bases |-> not_matched_count,
                               correct_when_bases_match |-> correct_when_matched,
                               correct_when_bases_dont_match |-> correct_when_not_matched,
                               eve_interceptions |-> np_sum(eve.eve_intercepts),
                               eve_caused_errors |-> np_sum(eve.eve_caused_error),
                               channel_errors |-> np_sum(channel_errors),
                               sifted_key_length |-> Len(s.value.key),
                               qber |-> q.value]],
                 [alice_drawn |-> alice_drawn, alice_bits |-> alice_bits, alice_bases |-> alice_bases,
                  eve_bases |-> eve.eve_bases, eve_intercepts |-> eve.eve_intercepts,
                  eve_bits |-> eve.eve_bits, final_bits |-> final_bits,
                  bob_bases |-> bob_bases, bob_bits |-> bob_bits,
                  matching_bases |-> s.value.mask, key |-> s.value.key],
                 bob.rng)

\* simulate_detailed from Bob's bases on (channel errors, Bob's measurement),
\* given Alice's drawn bits, her bases and the outcome of Eve's stage
detailed_receive(qubit_count, error_rate, eve_fraction, alice_drawn, alice_bases, eve) ==
    LET bb == generate_random_bases(eve.rng, qubit_count)
        bob_bases == bb.val
        ce == np_random_random(bb.rng, qubit_count)
        channel_errors == [i \in 1..qubit_count |-> ce.val[i] < error_rate]
        fcp == ndarray_copy(<<eve.eve_bits>>, 1)
        final_bits == [i \in 1..qubit_count |->
                          IF channel_errors[i] THEN 1 - fcp.heap[fcp.ref][i]
                          ELSE fcp.heap[fcp.ref][i]]
        bases_match == [i \in 1..qubit_count |-> alice_bases[i] = bob_bases[i]]
        bob == bob_loop(1, [n |-> qubit_count, bases_match |-> bases_match,
                            final_bits |-> final_bits],
                        [rng |-> ce.rng, bob_bits |-> [i \in 1..qubit_count |-> 0]])
    IN  detailed_result(qubit_count, error_rate, eve_fraction, alice_drawn, alice_bases, eve,
                        bob_bases, channel_errors, final_bits, bases_match, bob)

simulate_detailed(r, qubit_count_arg, error_rate, eve_fraction, show_all, kwargs) ==
    LET qubit_count == IF ~show_all THEN Min(qubit_count_arg, DetailCap) ELSE qubit_count_arg
        a == generate_random_bits(r, qubit_count)
        ab == generate_random_bases(a.rng, qubit_count)
        eve == eve_intercept_resend(ab.rng, a.val, ab.val, qubit_count, eve_fraction)
    IN  detailed_receive(qubit_count, error_rate, eve_fraction, a.val, ab.val, eve)

(***************************************************************************)
(* backend/main.py: the single-qubit circuits and the Aer simulator        *)
(***************************************************************************)
\* A circuit is its sequence of instructions.  The qubit starts in |0>; the
\* gates used (x, h) and the Pauli errors of the depolarizing channel keep
\* it in one of |0>, |1>, |+>, |-> (up to a global phase).
prepare_bb84_qubit(bit, basis) ==
    (IF bit = 1 THEN <<"x">> ELSE <<>>) \o (IF basis = "X" THEN <<"h">> ELSE <<>>)

\* measure_bb84_qubit without the basis change before the measurement
measure_bb84_qubit_z_only(qc, basis) == qc \o <<"measure">>

measure_bb84_qubit(qc, basis) ==
    qc \o (IF basis = "X" THEN <<"h">> ELSE <<>>) \o <<"measure">>

ApplyGate(g, st) ==
    CASE g = "i" -> st
      [] g = "x" -> (CASE st = "0" -> "1" [] st = "1" -> "0" [] OTHER -> st)
      [] g = "z" -> (CASE st = "+" -> "-" [] st = "-" -> "+" [] OTHER -> st)
      [] g = "y" -> (CASE st = "0" -> "1" [] st = "1" -> "0"
                       [] st = "+" -> "-" [] st = "-" -> "+")
      [] g = "h" -> (CASE st = "0" -> "+" [] st = "1" -> "-"
                       [] st = "+" -> "0" [] st = "-" -> "1")

\* the simulator's own generator: one word of 0..3 per instruction of a run
AerDraws == 4
AerWords == 0..3
AerStreams == [1..AerDraws -> AerWords]

\* AerSimulator.run(..., seed_simulator=s): every run restarts the stream of s
AerSeedStream(s) == [k \in 1..AerDraws |-> (s * (k + 2) + k * k + (s \div 2)) % 4]

\* depolarizing_error(noise_level, 1) after a gate: one of the Paulis I, X, Y, Z
Pauli(w) == <<"i", "x", "y", "z">>[w + 1]

\* one shot of the circuit: the noise model is installed only if
\* noise_level > 0 and then follows every x and h; measuring |+> or |->
\* gives either bit
RECURSIVE aer_shot(_, _, _, _, _)
aer_shot(qc, k, st, noise_level, d) ==
    IF qc[k] = "measure"
    THEN (IF st = "0" THEN 0 ELSE IF st = "1" THEN 1 ELSE d[k] % 2)
    ELSE LET after == ApplyGate(qc[k], st)
             noisy == IF noise_level > 0 THEN ApplyGate(Pauli(d[k]), after) ELSE after
         IN  aer_shot(qc, k + 1, noisy, noise_level, d)

aer_run(qc, noise_level, d) == aer_shot(qc, 1, "0", noise_level, d)

\* the measured bits the n jobs can deliver: fixed by seed_simulator when it
\* is given, any outcome of each circuit when it is None
AerRuns(circuits, noise_level, seed_simulator) ==
    IF seed_simulator # <<>>
    THEN {[i \in 1..Len(circuits) |->
              aer_run(circuits[i], noise_level, AerSeedStream(seed_simulator[1]))]}
    ELSE {m \in [1..Len(circuits) -> Bit] :
              \A i \in 1..Len(circuits) :
                  \E d \in AerStreams : aer_run(circuits[i], noise_level, d) = m[i]}

\* `seed if seed else None`
SeedIfSeed(seed) == IF seed # <<>> /\ seed[1] # 0 THEN seed ELSE <<>>

\* the sifting loop (Step 5) over the rounds
RECURSIVE sift_rounds(_, _, _)
sift_rounds(i, c, acc) ==
    IF i > c.n THEN acc
    ELSE IF c.alice_bases[i] = c.bob_bases[i]
         THEN sift_rounds(i + 1, c,
                  [sifted_key_alice |-> Append(acc.sifted_key_alice, c.alice_bits[i]),
                   sifted_key_bob |-> Append(acc.sifted_key_bob, c.bob_measurements[i])])
         ELSE sift_rounds(i + 1, c, acc)

\* the set of BB84Results objects simulate_bb84 can return from generator
\* state r (each with the generator state it leaves)
simulate_bb84(r, n_qubits, noise_level, seed) ==
    LET r0 == IF seed # <<>> THEN np_random_seed(seed[1]) ELSE r
        a == np_random_randint(r0, n_qubits)
        abi == np_random_randint(a.rng, n_qubits)
        bbi == np_random_randint(abi.rng, n_qubits)
        alice_bits == a.val
        alice_bases == [i \in 1..n_qubits |-> IF abi.val[i] = 0 THEN "Z" ELSE "X"]
        bob_bases == [i \in 1..n_qubits |-> IF bbi.val[i] = 0 THEN "Z" ELSE "X"]
        circuits == [i \in 1..n_qubits |->
                        measure_bb84_qubit(prepare_bb84_qubit(alice_bits[i], alice_bases[i]),
                                           bob_bases[i])]
        Finish(bob_measurements) ==
            LET k == sift_rounds(1, [n |-> n_qubits, alice_bits |-> alice_bits,
                                     alice_bases |-> alice_bases, bob_bases |-> bob_bases,
                                     bob_measurements |-> bob_measurements],
                                 [sifted_key_alice |-> <<>>, sifted_key_bob |-> <<>>])
                errors == np_sum([j \in 1..Len(k.sifted_key_alice) |->
                                     k.sifted_key_alice[j] # k.sifted_key_bob[j]])
            IN  [fn |-> "simulate_bb84", raised |-> "none",
                 alice_bits |-> alice_bits, alice_bases |-> alice_bases,
                 bob_bases |-> bob_bases, bob_measurements |-> bob_measurements,
                 sifted_key_alice |-> k.sifted_key_alice,
                 sifted_key_bob |-> k.sifted_key_bob,
                 qber |-> IF Len(k.sifted_key_alice) > 0
                          THEN Fraction(errors, Len(k.sifted_key_alice)) ELSE Zero,
                 circuits |-> circuits,
                 rng |-> bbi.rng]
    IN  {Finish(m) : m \in AerRuns(circuits, noise_level, SeedIfSeed(seed))}

(***************************************************************************)
(* State                                                                   *)
(***************************************************************************)
VARIABLES
    rng,             \* state of numpy's global generator (np.random)
    args,            \* the arguments the caller invokes the engine with
    call,            \* the last invocation: function and function-specific arguments
    res,             \* what the last invocation returned
    latest_results,  \* main.py global: the BB84Results of the latest simulation, or None
    results_lock,    \* main.py global: the client holding the lock, or Free
    clients,         \* per request handler in flight: position, locals, response
    history          \* bookkeeping: requests started, objects created, last writer

vars == <<rng, args, call, res, latest_results, results_lock, clients, history>>
engineVars == <<rng, args, call, res>>
apiVars == <<latest_results, results_lock, clients, history>>

(***************************************************************************)
(* backend/main.py: the request handlers and the latest-results slot       *)
(***************************************************************************)
\* /run_bb84 requests accepted over a behaviour
MaxRuns == 2
\* largest n_qubits (and round_index) a request carries
MaxApiQubits == 2

\* two requests in flight at a time, each of any endpoint
Clients == {1, 2}
Free == 0

\* latest_results = None
None == [id |-> 0]

\* BB84Request field constraints (ge / le)
MinRequestQubits == 1
MaxRequestQubits == 1000
MaxNoiseLevel == 100

\* validation with the bounds excluded
ValidRequest_exclusive(request) ==
    /\ request.n_qubits > MinRequestQubits /\ request.n_qubits < MaxRequestQubits
    /\ request.noise_level > 0 /\ request.noise_level < MaxNoiseLevel

ValidRequest(request) ==
    /\ request.n_qubits >= MinRequestQubits /\ request.n_qubits <= MaxRequestQubits
    /\ request.noise_level >= 0 /\ request.noise_level <= MaxNoiseLevel

\* request bodies: the accepted ones (the unseeded and the noise_level 1.0
\* requests are one-qubit ones) and one request past each end of each range
RejectedRequests ==
    {[n_qubits |-> MinRequestQubits - 1, noise_level |-> 0, seed |-> <<>>],
     [n_qubits |-> MaxRequestQubits + 1, noise_level |-> 0, seed |-> <<1>>],
     [n_qubits |-> 1, noise_level |-> 0 - 1, seed |-> <<>>],
     [n_qubits |-> 1, noise_level |-> MaxNoiseLevel + 1, seed |-> <<1>>]}

\* a request that passes validation with a seed np.random.seed refuses
RaisingRequests == {[n_qubits |-> 1, noise_level |-> 0, seed |-> <<0 - 1>>]}

Requests ==
    {q \in [n_qubits : 1..MaxApiQubits, noise_level : NoiseLevels \cup {MaxNoiseLevel},
            seed : {<<>>, <<1>>}] :
        /\ q.seed = <<>> => q.n_qubits = 1
        /\ q.noise_level = MaxNoiseLevel => (q.n_qubits = 1 /\ q.seed # <<>>)}
    \cup RejectedRequests \cup RaisingRequests

RoundIndexes == 0..MaxApiQubits
Handlers == {"results", "stats", "visualize_round"}

NoRequest == [n_qubits |-> 0, noise_level |-> 0, seed |-> <<>>]
NoResponse == [status |-> 0, body |-> <<>>, src |-> <<>>]

\* bookkeeping of the writes: the object stored, the n_qubits of its request,
\* the number of the write and the n_qubits of the results it replaced
NoWrite == [id |-> 0, n_qubits |-> 0, seq |-> 0, replaced |-> 0]

IdleClient ==
    [pc |-> "idle", handler |-> "none", request |-> NoRequest, round_index |-> 0,
     results |-> None, k |-> 0, resp |-> NoResponse, start |-> NoWrite]

ApiStart ==
    /\ latest_results = None
    /\ results_lock = Free
    /\ clients = [c \in Clients |-> IdleClient]
    /\ history = [runs |-> 0, objects |-> 0, last_write |-> NoWrite]

NoCall == [fn |-> "none"]
NoResult == [fn |-> "none", raised |-> "none"]

Kwargs(a) == [error_rate |-> a.error_rate, eve_fraction |-> a.eve_fraction, seed |-> a.seed]

(***************************************************************************)
(* The engine called directly: the scenario functions and simulate_bb84    *)
(***************************************************************************)
\* the argument tuples tried: every noise/eavesdropping setting without a
\* seed, and every seed on the noiseless, Eve-free setting
ArgSets ==
    {a \in [qubit_count : QubitCounts, error_rate : ErrorRates,
            eve_fraction : EveFractions, seed : OptSeeds] :
        a.seed = <<>> \/ (a.error_rate = 0 /\ a.eve_fraction = 0)}

Init ==
    /\ rng \in AllStreams
    /\ args \in ArgSets
    /\ call = NoCall
    /\ res = NoResult
    /\ ApiStart

CallIdeal ==
    LET out == simulate_ideal(rng, args.qubit_count, Kwargs(args)) IN
    /\ call' = [fn |-> "simulate_ideal"]
    /\ res' = out
    /\ rng' = out.rng
    /\ UNCHANGED <<args, apiVars>>

CallErrorOnly ==
    LET out == simulate_error_only(rng, args.qubit_count, args.error_rate, Kwargs(args)) IN
    /\ call' = [fn |-> "simulate_error_only"]
    /\ res' = out
    /\ rng' = out.rng
    /\ UNCHANGED <<args, apiVars>>

CallErrorWithEve ==
    LET out == simulate_error_with_eve(rng, args.qubit_count, args.error_rate,
                                       args.eve_fraction, Kwargs(args)) IN
    /\ call' = [fn |-> "simulate_error_with_eve"]
    /\ res' = out
    /\ rng' = out.rng
    /\ UNCHANGED <<args, apiVars>>

CallDecoherenceFree ==
    LET out == simulate_decoherence_free(rng, args.qubit_count, args.error_rate,
                                         args.eve_fraction, Kwargs(args)) IN
    /\ call' = [fn |-> "simulate_decoherence_free"]
    /\ res' = out
    /\ rng' = out.rng
    /\ UNCHANGED <<args, apiVars>>

CallDetailed ==
    \E show_all \in BOOLEAN :
        LET out == simulate_detailed(rng, args.qubit_count, args.error_rate,
                                     args.eve_fraction, show_all, Kwargs(args)) IN
        /\ call' = [fn |-> "simulate_detailed", show_all |-> show_all]
        /\ res' = out
        /\ rng' = out.rng
        /\ UNCHANGED <<args, apiVars>>

CallSimulateBB84 ==
    \E noise_level \in NoiseLevels :
        \E out \in simulate_bb84(rng, args.qubit_count, noise_level, args.seed) :
            /\ call' = [fn |-> "simulate_bb84", noise_level |-> noise_level]
            /\ res' = out
            /\ rng' = out.rng
            /\ UNCHANGED <<args, apiVars>>

\* One invocation from every generator state and every argument tuple: each
\* function applied once to inputs that Init draws.
Fresh == call = NoCall

FirstIdeal == Fresh /\ CallIdeal
FirstErrorOnly == Fresh /\ CallErrorOnly
FirstErrorWithEve == Fresh /\ CallErrorWithEve
FirstDecoherenceFree == Fresh /\ CallDecoherenceFree
FirstDetailed == Fresh /\ CallDetailed
FirstSimulateBB84 == Fresh /\ CallSimulateBB84

Next ==
    \/ FirstIdeal
    \/ FirstErrorOnly
    \/ FirstErrorWithEve
    \/ FirstDecoherenceFree
    \/ FirstDetailed
    \/ FirstSimulateBB84

Spec == Init /\ [][Next]_vars

\* Any sequence of invocations in one process, all with the caller's
\* argument tuple; the generator state carries over from call to call.
InitSeq ==
    /\ rng \in AllStreams
    /\ args \in {a \in ArgSets : a.error_rate = 0 /\ a.eve_fraction = 0}
    /\ call = NoCall
    /\ res = NoResult
    /\ ApiStart

NextSeq ==
    \/ CallIdeal
    \/ CallErrorOnly
    \/ CallErrorWithEve
    \/ CallDecoherenceFree
    \/ CallDetailed
    \/ CallSimulateBB84

SpecSeq == InitSeq /\ [][NextSeq]_vars

\* One scenario invocation with a qubit_count below, at or just past the two
\* caps of the result records (20 detailed positions, 100 key characters).
LongCounts == {MaxQubits, DetailCap, DetailCap + 1, KeyCap, KeyCap + 1}

\* generator states for the long runs: the seeded ones and the two constant
\* streams (on which every pair of bases matches)
LongStreams ==
    {np_random_seed(s) : s \in Seeds} \cup {[i \in 1..Period |-> b] : b \in Bit}

InitLong ==
    /\ rng \in LongStreams
    /\ args \in [qubit_count : LongCounts, error_rate : {0, 50},
                 eve_fraction : {0, 100}, seed : {<<>>}]
    /\ call = NoCall
    /\ res = NoResult
    /\ ApiStart

NextLong ==
    \/ FirstIdeal
    \/ FirstErrorOnly
    \/ FirstErrorWithEve
    \/ FirstDecoherenceFree
    \/ FirstDetailed

SpecLong == InitLong /\ [][NextLong]_vars

\* The declared parameter ranges (models.py, SimulationRequest): qubit_count
\* in [10, 1000], error_rate in [0, 0.5], eve_fraction in [0, 1].
MinQubitCount == 10
MaxQubitCount == 1000
MaxErrorRate == 50
MaxEveFraction == 100

InRange(a) ==
    /\ a.qubit_count >= MinQubitCount /\ a.qubit_count <= MaxQubitCount
    /\ a.error_rate >= 0 /\ a.error_rate <= MaxErrorRate
    /\ a.eve_fraction >= 0 /\ a.eve_fraction <= MaxEveFraction

\* One scenario invocation with arguments at and just outside the declared
\* ranges.
InitRange ==
    /\ rng \in LongStreams
    /\ args \in [qubit_count : {MinQubitCount - 1, MinQubitCount},
                 error_rate : {0, MaxErrorRate, MaxErrorRate + 1},
                 eve_fraction : {0, MaxEveFraction, MaxEveFraction + 1},
                 seed : {<<>>}]
    /\ call = NoCall
    /\ res = NoResult
    /\ ApiStart

SpecRange == InitRange /\ [][NextLong]_vars

(***************************************************************************)
(* The utils functions called directly on arbitrary arrays                 *)
(***************************************************************************)
BitArrays == UNION {[1..n -> Bit] : n \in 0..MaxLen}

\* a 0/1 array read as the boolean mask handed to calculate_qber
AsMask(a) == [i \in 1..Len(a) |-> a[i] = 1]

InitUtil ==
    /\ rng = np_random_seed(0)
    /\ args \in [alice_bits : BitArrays, bob_bits : BitArrays,
                 alice_bases : BitArrays, bob_bases : BitArrays]
    /\ call = NoCall
    /\ res = NoResult
    /\ ApiStart

CallSiftKey ==
    LET out == sift_key(args.alice_bits, args.bob_bits, args.alice_bases, args.bob_bases) IN
    /\ Fresh
    /\ call' = [fn |-> "sift_key"]
    /\ res' = [fn |-> "sift_key", raised |-> out.raised, out |-> out]
    /\ UNCHANGED <<rng, args, apiVars>>

CallCalculateQber ==
    LET out == calculate_qber(args.alice_bits, args.bob_bits, AsMask(args.bob_bases)) IN
    /\ Fresh
    /\ call' = [fn |-> "calculate_qber"]
    /\ res' = [fn |-> "calculate_qber", raised |-> out.raised, out |-> out]
    /\ UNCHANGED <<rng, args, apiVars>>

CallCompareArrays ==
    LET out == compare_arrays(args.alice_bits, args.bob_bits) IN
    /\ Fresh
    /\ call' = [fn |-> "compare_arrays"]
    /\ res' = [fn |-> "compare_arrays", raised |-> out.raised, out |-> out]
    /\ UNCHANGED <<rng, args, apiVars>>

NextUtil ==
    \/ CallSiftKey
    \/ CallCalculateQber
    \/ CallCompareArrays

SpecUtil == InitUtil /\ [][NextUtil]_vars

\* apply_channel_error on any array, from any generator state, with an
\* error_rate of the contract's range [0, 1]
NoiseRates == {0, 5, 50, 100}

InitNoise ==
    /\ rng \in AllStreams
    /\ args \in [qubits : BitArrays, error_rate : NoiseRates]
    /\ call = NoCall
    /\ res = NoResult
    /\ ApiStart

CallApplyChannelError ==
    LET out == apply_channel_error(rng, args.qubits, args.error_rate) IN
    /\ Fresh
    /\ call' = [fn |-> "apply_channel_error"]
    /\ res' = [fn |-> "apply_channel_error", raised |-> "none", out |-> out]
    /\ rng' = out.rng
    /\ UNCHANGED <<args, apiVars>>

SpecNoise == InitNoise /\ [][CallApplyChannelError]_vars

(***************************************************************************)
(* The HTTP handlers, interleaved at every access to the shared slot       *)
(***************************************************************************)
\* the security threshold of /run_bb84 and /stats
SecurityThreshold == 11

\* a lock that never blocks
LockFree_never_blocks(l) == TRUE

\* `with results_lock:` blocks until the lock is free
LockFree(l) == l = Free

\* the indices (from 0) where the stored bases match
MatchingIndices(d) ==
    Select([i \in 1..Len(d.alice_bases) |-> i - 1],
           [i \in 1..Len(d.alice_bases) |-> d.alice_bases[i] = d.bob_bases[i]])

\* an error count taken over all rounds instead of the sifted ones
ErrorCount_all_rounds(d) ==
    np_sum([j \in 1..Len(d.alice_bits) |-> d.alice_bits[j] # d.bob_measurements[j]])

\* sum(1 for a, b in zip(sifted_key_alice, sifted_key_bob) if a != b)
ErrorCount(d) ==
    np_sum([j \in 1..Min(Len(d.sifted_key_alice), Len(d.sifted_key_bob)) |->
               d.sifted_key_alice[j] # d.sifted_key_bob[j]])

\* the reads of latest_results a handler makes, in program order
ReadCount(handler) ==
    CASE handler = "results" -> 8
      [] handler = "stats" -> 5
      [] handler = "visualize_round" -> 6

ReadValue(handler, k, d, round_index) ==
    CASE handler = "results" ->
           (CASE k = 1 -> MatchingIndices(d)
              [] k = 2 -> d.alice_bits
              [] k = 3 -> d.alice_bases
              [] k = 4 -> d.bob_bases
              [] k = 5 -> d.bob_measurements
              [] k = 6 -> d.sifted_key_alice
              [] k = 7 -> d.sifted_key_bob
              [] k = 8 -> Len(d.alice_bits))
      [] handler = "stats" ->
           (CASE k = 1 -> Len(d.alice_bits)
              [] k = 2 -> Len(d.sifted_key_alice)
              [] k = 3 -> ErrorCount(d)
              [] k = 4 -> d.qber
              [] k = 5 -> QLt(d.qber, SecurityThreshold))
      [] handler = "visualize_round" ->
           (CASE k = 1 -> d.circuits[round_index + 1]
              [] k = 2 -> d.alice_bases[round_index + 1] = d.bob_bases[round_index + 1]
              [] k = 3 -> d.alice_bits[round_index + 1]
              [] k = 4 -> d.alice_bases[round_index + 1]
              [] k = 5 -> d.bob_bases[round_index + 1]
              [] k = 6 -> d.bob_measurements[round_index + 1])

\* the dict /stats returns, from the values it read (in read order)
StatsResponse(body) ==
    [qber |-> body[4],
     total_qubits |-> body[1],
     sifted_key_length |-> body[2],
     efficiency |-> IF body[1] > 0 THEN Fraction(body[2], body[1]) ELSE Zero,
     matching_bases_count |-> body[2],
     error_count |-> body[3],
     secure |-> body[5],
     security_threshold |-> SecurityThreshold]

InitApi ==
    /\ rng = np_random_seed(0)
    /\ args = [qubit_count |-> 1, error_rate |-> 0, eve_fraction |-> 0, seed |-> <<>>]
    /\ call = NoCall
    /\ res = NoResult
    /\ ApiStart

\* POST /run_bb84 arrives; a request that fails validation is answered 422
StartRunBB84(c) ==
    /\ clients[c].pc = "idle"
    /\ history.runs < MaxRuns
    /\ \E request \in Requests :
          clients' = [clients EXCEPT ![c] =
              IF ValidRequest(request)
              THEN [IdleClient EXCEPT !.pc = "simulate", !.handler = "run_bb84",
                                      !.request = request,
                                      !.start = history.last_write]
              ELSE [IdleClient EXCEPT !.handler = "run_bb84", !.request = request,
                                      !.start = history.last_write,
                                      !.resp = [status |-> 422, body |-> <<>>, src |-> <<>>]]]
    /\ history' = [history EXCEPT !.runs = @ + 1]
    /\ UNCHANGED <<engineVars, latest_results, results_lock>>

\* np.random.seed(seed) raises ValueError for a seed below 0 (or above
\* 2**32 - 1, which no seed of the model reaches)
SeedAccepted(seed) == IF seed = <<>> THEN TRUE ELSE seed[1] >= 0

\* the ways simulate_bb84 raises, with the generator each leaves behind: the
\* seeding refuses the seed before anything is drawn, or a simulator job
\* fails in the per-qubit loop, after Alice's and Bob's draws
simulate_bb84_raises(r, n_qubits, noise_level, seed) ==
    IF ~SeedAccepted(seed)
    THEN {[fn |-> "simulate_bb84", raised |-> "ValueError", rng |-> r]}
    ELSE LET r0 == IF seed # <<>> THEN np_random_seed(seed[1]) ELSE r
             a == np_random_randint(r0, n_qubits)
             abi == np_random_randint(a.rng, n_qubits)
             bbi == np_random_randint(abi.rng, n_qubits)
         IN  {[fn |-> "simulate_bb84", raised |-> "RuntimeError", rng |-> bbi.rng]}

\* simulate_bb84 raises; `except Exception` turns it into HTTP 500, and the
\* store of latest_results is never reached
SimulateRaises_clears_slot(c) ==
    /\ clients[c].pc = "simulate"
    /\ \E e \in simulate_bb84_raises(rng, clients[c].request.n_qubits,
                                     clients[c].request.noise_level,
                                     clients[c].request.seed) :
          /\ rng' = e.rng
          /\ clients' = [clients EXCEPT ![c].pc = "idle",
                            ![c].resp = [status |-> 500, body |-> <<e.raised>>,
                                         src |-> <<>>]]
    /\ latest_results' = None
    /\ UNCHANGED <<args, call, res, results_lock, history>>

SimulateRaises(c) ==
    /\ clients[c].pc = "simulate"
    /\ \E e \in simulate_bb84_raises(rng, clients[c].request.n_qubits,
                                     clients[c].request.noise_level,
                                     clients[c].request.seed) :
          /\ rng' = e.rng
          /\ clients' = [clients EXCEPT ![c].pc = "idle",
                            ![c].resp = [status |-> 500, body |-> <<e.raised>>,
                                         src |-> <<>>]]
    /\ UNCHANGED <<args, call, res, latest_results, results_lock, history>>

\* results = simulate_bb84(request.n_qubits, request.noise_level, request.seed)
Simulate(c) ==
    /\ clients[c].pc = "simulate"
    /\ SeedAccepted(clients[c].request.seed)
    /\ \E out \in simulate_bb84(rng, clients[c].request.n_qubits,
                                clients[c].request.noise_level, clients[c].request.seed) :
          /\ rng' = out.rng
          /\ clients' = [clients EXCEPT ![c].pc = "write_acquire",
                                        ![c].results = [id |-> history.objects + 1,
                                                        data |-> out]]
    /\ history' = [history EXCEPT !.objects = @ + 1]
    /\ UNCHANGED <<args, call, res, latest_results, results_lock>>

\* with results_lock:
WriteAcquire(c) ==
    /\ clients[c].pc = "write_acquire"
    /\ LockFree(results_lock)
    /\ results_lock' = c
    /\ clients' = [clients EXCEPT ![c].pc = "write"]
    /\ UNCHANGED <<engineVars, latest_results, history>>

\* a write that keeps results already stored
Write_keeps_first(c) ==
    /\ clients[c].pc = "write"
    /\ latest_results' = IF latest_results = None THEN clients[c].results
                         ELSE latest_results
    /\ history' = [history EXCEPT !.last_write =
                      [id |-> clients[c].results.id,
                       n_qubits |-> clients[c].request.n_qubits,
                       seq |-> history.last_write.seq + 1,
                       replaced |-> history.last_write.n_qubits]]
    /\ clients' = [clients EXCEPT ![c].pc = "write_release"]
    /\ UNCHANGED <<engineVars, results_lock>>

\* a write that records the store but leaves the slot as it was
Write_drops_results(c) ==
    /\ clients[c].pc = "write"
    /\ latest_results' = latest_results
    /\ history' = [history EXCEPT !.last_write =
                      [id |-> clients[c].results.id,
                       n_qubits |-> clients[c].request.n_qubits,
                       seq |-> history.last_write.seq + 1,
                       replaced |-> history.last_write.n_qubits]]
    /\ clients' = [clients EXCEPT ![c].pc = "write_release"]
    /\ UNCHANGED <<engineVars, results_lock>>

\* latest_results = results
Write(c) ==
    /\ clients[c].pc = "write"
    /\ latest_results' = clients[c].results
    /\ history' = [history EXCEPT !.last_write =
                      [id |-> clients[c].results.id,
                       n_qubits |-> clients[c].request.n_qubits,
                       seq |-> history.last_write.seq + 1,
                       replaced |-> history.last_write.n_qubits]]
    /\ clients' = [clients EXCEPT ![c].pc = "write_release"]
    /\ UNCHANGED <<engineVars, results_lock>>

WriteRelease(c) ==
    /\ clients[c].pc = "write_release"
    /\ results_lock' = Free
    /\ clients' = [clients EXCEPT ![c].pc = "respond"]
    /\ UNCHANGED <<engineVars, latest_results, history>>

\* the summary returned by /run_bb84, built from the handler's own results
RunRespond(c) ==
    /\ clients[c].pc = "respond"
    /\ LET d == clients[c].results.data
           n == clients[c].request.n_qubits IN
       clients' = [clients EXCEPT ![c].pc = "idle",
                      ![c].resp = [status |-> 200,
                                   body |-> [total_qubits |-> n,
                                             sifted_key_length |-> Len(d.sifted_key_alice),
                                             efficiency |-> IF n > 0
                                                 THEN Fraction(Len(d.sifted_key_alice), n)
                                                 ELSE Zero,
                                             qber |-> d.qber,
                                             secure |-> QLt(d.qber, SecurityThreshold)],
                                   src |-> <<clients[c].results.id>>]]
    /\ UNCHANGED <<engineVars, latest_results, results_lock, history>>

\* GET /results, /stats or /visualize_round/{round_index} arrives
StartRead(c) ==
    /\ clients[c].pc = "idle"
    /\ \E handler \in Handlers, round_index \in RoundIndexes :
          /\ handler # "visualize_round" => round_index = 0
          /\ clients' = [clients EXCEPT ![c] =
                 [IdleClient EXCEPT !.pc = "read_acquire", !.handler = handler,
                                    !.round_index = round_index]]
    /\ UNCHANGED <<engineVars, latest_results, results_lock, history>>

\* with results_lock:
ReadAcquire(c) ==
    /\ clients[c].pc = "read_acquire"
    /\ LockFree(results_lock)
    /\ results_lock' = c
    /\ clients' = [clients EXCEPT ![c].pc = "read_check",
                                  ![c].start = history.last_write]
    /\ UNCHANGED <<engineVars, latest_results, history>>

\* `if latest_results is None` -> 404, then for /visualize_round the range
\* check -> 400; the exception leaves the with block, releasing the lock
ReadCheck(c) ==
    /\ clients[c].pc = "read_check"
    /\ IF latest_results = None
       THEN /\ clients' = [clients EXCEPT ![c].pc = "idle",
                              ![c].resp = [status |-> 404, body |-> <<>>, src |-> <<>>]]
            /\ results_lock' = Free
       ELSE IF /\ clients[c].handler = "visualize_round"
               /\ \/ clients[c].round_index < 0
                  \/ clients[c].round_index >= Len(latest_results.data.circuits)
       THEN /\ clients' = [clients EXCEPT ![c].pc = "idle",
                              ![c].resp = [status |-> 400, body |-> <<>>, src |-> <<>>]]
            /\ results_lock' = Free
       ELSE /\ clients' = [clients EXCEPT ![c].pc = "read", ![c].k = 1]
            /\ UNCHANGED results_lock
    /\ UNCHANGED <<engineVars, latest_results, history>>

\* the k-th read of the global latest_results in the handler body
ReadField(c) ==
    /\ clients[c].pc = "read"
    /\ LET me == clients[c]
           v == ReadValue(me.handler, me.k, latest_results.data, me.round_index) IN
       clients' = [clients EXCEPT
                      ![c].resp = [status |-> 0,
                                   body |-> Append(me.resp.body, v),
                                   src |-> Append(me.resp.src, latest_results.id)],
                      ![c].k = IF me.k = ReadCount(me.handler) THEN 0 ELSE me.k + 1,
                      ![c].pc = IF me.k = ReadCount(me.handler) THEN "read_release"
                                ELSE "read"]
    /\ UNCHANGED <<engineVars, latest_results, results_lock, history>>

\* the return leaves the with block; the response goes out
ReadRelease(c) ==
    /\ clients[c].pc = "read_release"
    /\ results_lock' = Free
    /\ clients' = [clients EXCEPT ![c].pc = "idle", ![c].resp.status = 200]
    /\ UNCHANGED <<engineVars, latest_results, history>>

NextApi ==
    \E c \in Clients :
        \/ StartRunBB84(c)
        \/ Simulate(c)
        \/ SimulateRaises(c)
        \/ WriteAcquire(c)
        \/ Write(c)
        \/ WriteRelease(c)
        \/ RunRespond(c)
        \/ StartRead(c)
        \/ ReadAcquire(c)
        \/ ReadCheck(c)
        \/ ReadField(c)
        \/ ReadRelease(c)

SpecApi == InitApi /\ [][NextApi]_vars

(***************************************************************************)
(* Properties                                                              *)
(***************************************************************************)
ScenarioFns == {"simulate_ideal", "simulate_error_only", "simulate_error_with_eve",
                "simulate_decoherence_free", "simulate_detailed"}

ScenarioReturned == res.fn \in ScenarioFns /\ res.raised = "none"
BB84Returned == res.fn = "simulate_bb84" /\ res.raised = "none"

\* positions where the two basis sequences agree
MatchSet(ab, bb) == {i \in 1..Len(ab) : ab[i] = bb[i]}

\* key is the subsequence of bits at the positions of M, in order
SubsequenceAt(key, bits, M) ==
    /\ Len(key) = Cardinality(M)
    /\ \A i \in M : key[Cardinality({j \in M : j <= i})] = bits[i]

\* positions of M where the two bit sequences differ
Mismatches(a, b, M) == {i \in M : a[i] # b[i]}

\* the fraction q equals e / m
QEquals(q, e, m) == q.den > 0 /\ q.num * m = e * q.den

\* C1: the sifted key is the ordered subsequence of Alice's bits at exactly
\* the positions where alice_basis[i] = bob_basis[i]; sifted_key_length is
\* the number of those positions, Alice's and Bob's sifted keys have the same
\* length, and 0 <= sifted_key_length <= qubit_count.
C1_SiftedKeyIsMatchingSubsequence ==
    /\ ScenarioReturned =>
         LET M == MatchSet(res.loc.alice_bases, res.loc.bob_bases) IN
         /\ Len(res.loc.alice_bits) = res.ret.qubit_count
         /\ Len(res.loc.bob_bases) = res.ret.qubit_count
         /\ SubsequenceAt(res.loc.key, [i \in 1..Len(res.loc.alice_bits) |->
                                           IF res.loc.alice_bits[i] = 0 THEN "0" ELSE "1"], M)
         /\ res.ret.sifted_key_length = Cardinality(M)
         /\ res.ret.summary.sifted_key_length = Cardinality(M)
         /\ 0 <= res.ret.sifted_key_length
         /\ res.ret.sifted_key_length <= res.ret.qubit_count
    /\ BB84Returned =>
         LET M == MatchSet(res.alice_bases, res.bob_bases) IN
         /\ Len(res.alice_bits) = args.qubit_count
         /\ SubsequenceAt(res.sifted_key_alice, res.alice_bits, M)
         /\ SubsequenceAt(res.sifted_key_bob, res.bob_measurements, M)
         /\ Len(res.sifted_key_alice) = Len(res.sifted_key_bob)
         /\ Len(res.sifted_key_alice) <= args.qubit_count

C1_Witness ==
    /\ ScenarioReturned
    /\ res.fn = "simulate_error_with_eve"
    /\ res.ret.qubit_count = 3
    /\ res.ret.sifted_key_length = 2
    /\ res.loc.alice_bases[2] # res.loc.bob_bases[2]
    /\ res.loc.alice_bits[1] # res.loc.alice_bits[3]
    /\ res.loc.bob_bits # res.loc.alice_bits

\* C2: the measured QBER is (matching-basis positions where the bits differ)
\* / (matching-basis positions) when a basis matches and exactly 0.0 when
\* none does; it lies in [0,1].
C2_QberIsMismatchFraction ==
    /\ ScenarioReturned =>
         LET M == MatchSet(res.loc.alice_bases, res.loc.bob_bases)
             E == Mismatches(res.loc.alice_bits, res.loc.bob_bits, M) IN
         /\ M # {} => QEquals(res.ret.qber, Cardinality(E), Cardinality(M))
         /\ M = {} => res.ret.qber = Zero
         /\ 0 <= res.ret.qber.num /\ res.ret.qber.num <= res.ret.qber.den
         /\ res.ret.qber.den > 0
    /\ BB84Returned =>
         LET M == MatchSet(res.alice_bases, res.bob_bases)
             E == Mismatches(res.alice_bits, res.bob_measurements, M) IN
         /\ M # {} => QEquals(res.qber, Cardinality(E), Cardinality(M))
         /\ M = {} => res.qber = Zero
         /\ 0 <= res.qber.num /\ res.qber.num <= res.qber.den
         /\ res.qber.den > 0

C2_Witness ==
    /\ ScenarioReturned
    /\ res.fn = "simulate_error_only"
    /\ Cardinality(MatchSet(res.loc.alice_bases, res.loc.bob_bases)) = 2
    /\ res.ret.qubit_count = 3
    /\ res.ret.qber = [num |-> 1, den |-> 2]
    /\ res.loc.bob_bits[CHOOSE i \in 1..3 : res.loc.alice_bases[i] # res.loc.bob_bases[i]]
         # res.loc.alice_bits[CHOOSE i \in 1..3 : res.loc.alice_bases[i] # res.loc.bob_bases[i]]

\* C3: for every qubit_count and every outcome of the draws the Ideal
\* scenario yields qber = 0.0 and Bob's sifted key equals Alice's.
C3_IdealIsErrorFree ==
    (ScenarioReturned /\ res.fn = "simulate_ideal") =>
        /\ res.ret.qber = Zero
        /\ res.ret.summary.actual_qber = Zero
        /\ Select(res.loc.bob_bits, res.loc.matching_bases)
             = Select(res.loc.alice_bits, res.loc.matching_bases)
        /\ join_str(Select(res.loc.bob_bits, res.loc.matching_bases)) = res.loc.key

C3_Witness ==
    /\ ScenarioReturned
    /\ res.fn = "simulate_ideal"
    /\ res.ret.qubit_count = 3
    /\ res.ret.sifted_key = <<"1", "0">>
    /\ args.error_rate = 50
    /\ args.eve_fraction = 100

\* C4: in simulate_bb84 with noise_level = 0, for every n_qubits and seed,
\* every round with equal bases gives Bob the bit Alice sent (preparation is
\* X iff bit = 1 then H iff basis = X, measurement is H iff basis = X, then
\* measure); hence qber = 0.0 and the two sifted keys are equal.
C4_NoiselessMatchingRoundsAgree ==
    (BB84Returned /\ call.noise_level = 0) =>
        /\ \A i \in 1..Len(res.alice_bits) :
              /\ res.alice_bases[i] = res.bob_bases[i]
                    => res.bob_measurements[i] = res.alice_bits[i]
              /\ (res.circuits[i][1] = "x") <=> (res.alice_bits[i] = 1)
              /\ Cardinality({k \in 1..Len(res.circuits[i]) : res.circuits[i][k] = "h"})
                    = (IF res.alice_bases[i] = "X" THEN 1 ELSE 0)
                      + (IF res.bob_bases[i] = "X" THEN 1 ELSE 0)
              /\ res.circuits[i][Len(res.circuits[i])] = "measure"
        /\ res.qber = Zero
        /\ res.sifted_key_alice = res.sifted_key_bob

C4_Witness ==
    /\ BB84Returned
    /\ call.noise_level = 0
    /\ args.seed = <<>>
    /\ \E i, j \in 1..Len(res.alice_bits) :
          /\ res.alice_bases[i] = "X" /\ res.bob_bases[i] = "X" /\ res.alice_bits[i] = 1
          /\ res.alice_bases[j] # res.bob_bases[j]
          /\ res.bob_measurements[j] # res.alice_bits[j]

\* C5 (as claimed): sift_key or calculate_qber called with sequences that
\* are not all of equal length always fails with a length-mismatch error and
\* never returns a value, whichever sequence differs and whatever the mask
\* contains.
C5_UnequalLengthsRejected ==
    /\ (/\ res.fn = "sift_key"
        /\ Cardinality({Len(args.alice_bits), Len(args.bob_bits),
                        Len(args.alice_bases), Len(args.bob_bases)}) > 1)
          => res.raised # "none"
    /\ (/\ res.fn = "calculate_qber"
        /\ Cardinality({Len(args.alice_bits), Len(args.bob_bits),
                        Len(args.bob_bases)}) > 1)
          => res.raised # "none"

\* C6 (as claimed): for every integer seed, 0 included, two invocations of
\* simulate_bb84 with the same arguments produce identical alice_bits,
\* alice_bases, bob_bases and bob_measurements.
C6_SeededRunsRepeat ==
    [][(/\ call.fn = "simulate_bb84" /\ call'.fn = "simulate_bb84"
        /\ call'.noise_level = call.noise_level
        /\ args.seed # <<>>)
       => /\ res'.alice_bits = res.alice_bits
          /\ res'.alice_bases = res.alice_bases
          /\ res'.bob_bases = res.bob_bases
          /\ res'.bob_measurements = res.bob_measurements]_vars

\* C7 (as claimed): for a fixed seed and qubit_count two invocations of the
\* same scenario produce identical bit sequences, basis sequences, sifted
\* keys and QBER, whatever was invoked before them.
C7_SeededScenariosRepeat ==
    [][(/\ call.fn \in ScenarioFns /\ call' = call
        /\ args.seed # <<>>)
       => /\ res'.loc = res.loc
          /\ res'.ret.sifted_key = res.ret.sifted_key
          /\ res'.ret.qber = res.ret.qber]_vars

\* program points between acquiring and releasing results_lock, where the
\* handlers read or write latest_results
SlotAccess == {"write", "write_release", "read_check", "read", "read_release"}

\* C8: every read and write of latest_results happens while the handler
\* holds results_lock, and the values a reader puts in its response all come
\* from one simulation's results: a concurrent /run_bb84 never shows through
\* as a mix of two runs.
C8_SlotAccessUnderLock ==
    \A c \in Clients :
        /\ clients[c].pc \in SlotAccess => results_lock = c
        /\ \A i, j \in DOMAIN clients[c].resp.src :
              clients[c].resp.src[i] = clients[c].resp.src[j]
        /\ (/\ clients[c].handler \in Handlers
            /\ clients[c].resp.src # <<>>
            /\ latest_results.id = clients[c].resp.src[1])
              => \A k \in DOMAIN clients[c].resp.body :
                    clients[c].resp.body[k] =
                        ReadValue(clients[c].handler, k, latest_results.data,
                                  clients[c].round_index)

\* a reader part-way through its reads while another handler waits for the
\* lock with the results of a new simulation
C8_Witness ==
    \E c, d \in Clients :
        /\ clients[c].pc = "read"
        /\ clients[c].k > 1
        /\ clients[d].pc = "write_acquire"
        /\ clients[d].results.id # latest_results.id
        /\ clients[d].results.data.alice_bits # latest_results.data.alice_bits

\* C9: the slot holds the results of the most recent write, and a read that
\* starts after it returns exactly those results: every value comes from the
\* stored object and total_rounds (total_qubits in /stats) is the n_qubits of
\* the request that wrote it.
C9_SlotHoldsLatestWrite ==
    /\ latest_results.id = history.last_write.id
    /\ latest_results # None =>
          Len(latest_results.data.alice_bits) = history.last_write.n_qubits
    /\ \A c \in Clients :
          clients[c].handler \in Handlers =>
              /\ \A i \in DOMAIN clients[c].resp.src :
                    clients[c].resp.src[i] = clients[c].start.id
              /\ clients[c].resp.status = 200 =>
                    /\ clients[c].start.seq > 0
                    /\ clients[c].handler = "results" =>
                          clients[c].resp.body[8] = clients[c].start.n_qubits
                    /\ clients[c].handler = "stats" =>
                          clients[c].resp.body[1] = clients[c].start.n_qubits

\* a /results response delivered after a second write replaced results of
\* another size
C9_Witness ==
    \E c \in Clients :
        /\ clients[c].handler = "results"
        /\ clients[c].resp.status = 200
        /\ clients[c].start.seq >= 2
        /\ clients[c].start.replaced # clients[c].start.n_qubits
        /\ clients[c].resp.body[8] = clients[c].start.n_qubits

\* C10 (as claimed): every scenario that reports a security verdict derives
\* it from the threshold 0.11 on the measured QBER: secure exactly when
\* qber < 0.11, insecure/detected otherwise, in Error-Only, Error-with-Eve
\* and Decoherence-Free alike.
C10_VerdictFromThreshold ==
    ScenarioReturned =>
        /\ res.fn = "simulate_error_with_eve" =>
              /\ res.ret.summary.eve_detected <=> ~QLt(res.ret.qber, 11)
              /\ (res.ret.summary.security_level = "Compromised") <=> ~QLt(res.ret.qber, 11)
        /\ res.fn = "simulate_decoherence_free" =>
              (res.ret.summary.eve_detected <=> ~QLt(res.ret.qber, 11))
        /\ res.fn = "simulate_error_only" =>
              ((res.ret.summary.security_level = "Secure (No eavesdropping)")
                   <=> QLt(res.ret.qber, 11))

\* C11: in the responses of /run_bb84 and /stats, secure is true exactly when
\* the qber of that same response is below 0.11; /stats also reports
\* matching_bases_count = sifted_key_length, error_count = the number of
\* positions where the stored sifted keys differ, and on a non-empty key
\* qber = error_count / sifted_key_length.
C11_SecureFlagAndStats ==
    \A c \in Clients :
        clients[c].resp.status = 200 =>
            /\ clients[c].handler = "run_bb84" =>
                  (clients[c].resp.body.secure <=> QLt(clients[c].resp.body.qber, 11))
            /\ clients[c].handler = "stats" =>
                  LET s == StatsResponse(clients[c].resp.body) IN
                  /\ s.secure <=> QLt(s.qber, 11)
                  /\ s.matching_bases_count = s.sifted_key_length
                  /\ s.sifted_key_length > 0 =>
                        QEquals(s.qber, s.error_count, s.sifted_key_length)
                  /\ latest_results.id = clients[c].resp.src[1] =>
                        s.error_count =
                            Cardinality({j \in 1..Len(latest_results.data.sifted_key_alice) :
                                latest_results.data.sifted_key_alice[j]
                                    # latest_results.data.sifted_key_bob[j]})

\* a /stats response that reports errors in the sifted key and secure = false
C11_Witness ==
    \E c \in Clients :
        /\ clients[c].handler = "stats"
        /\ clients[c].resp.status = 200
        /\ latest_results.id = clients[c].resp.src[1]
        /\ StatsResponse(clients[c].resp.body).error_count > 0
        /\ ~StatsResponse(clients[c].resp.body).secure

\* C12: in every scenario's result record, Detailed included, sifted_key is
\* the whole key when it has at most 100 characters and otherwise its first
\* 100 characters followed by "..."; sifted_key_length is always the length
\* of the whole key.
C12_SiftedKeyTruncated ==
    ScenarioReturned =>
        /\ res.ret.sifted_key_length = Len(res.loc.key)
        /\ Len(res.loc.key) <= 100 => res.ret.sifted_key = res.loc.key
        /\ Len(res.loc.key) > 100 =>
              res.ret.sifted_key = SubSeq(res.loc.key, 1, 100) \o <<".", ".", ".">>

\* C13: the error_rate and eve_fraction fields of every scenario's result
\* record equal the error_rate and eve_fraction the caller passed in, also
\* for the scenarios that do not use the parameter (Ideal, Error-Only).
C13_ParametersEchoed ==
    ScenarioReturned =>
        /\ res.ret.error_rate = args.error_rate
        /\ res.ret.eve_fraction = args.eve_fraction

\* C14: a scenario invocation whose qubit_count, error_rate or eve_fraction
\* lies outside [10,1000], [0,0.5], [0,1] is rejected with an error before
\* any random value is drawn: the generator is left as it was and no result
\* record is produced.
C14_OutOfRangeRejected ==
    [][(/\ call = NoCall
        /\ call'.fn \in ScenarioFns
        /\ ~InRange(args))
       => /\ res'.raised # "none"
          /\ rng' = rng]_vars

C16_ExpectedQberWithEve ==
    /\ []((res.fn = "simulate_error_with_eve" /\ res.raised = "none") =>
             /\ res.ret.summary.expected_qber
                    = args.error_rate * 100 + 25 * args.eve_fraction
             /\ (args.eve_fraction = 100 /\ args.error_rate = 0) =>
                    res.ret.summary.expected_qber = 2500)
    /\ [][(call'.fn = "simulate_error_with_eve" /\ res'.raised = "none") =>
             \A f \in EveFractions :
                 f >= args.eve_fraction =>
                     simulate_error_with_eve(rng, args.qubit_count, args.error_rate, f,
                                             Kwargs(args)).ret.summary.expected_qber
                         >= res'.ret.summary.expected_qber]_vars

\* an Error-with-Eve run with eve_fraction = 1.0 and error_rate = 0.0
C16_Witness ==
    /\ res.fn = "simulate_error_with_eve"
    /\ res.raised = "none"
    /\ args.eve_fraction = 100
    /\ args.error_rate = 0
    /\ res.ret.summary.expected_qber = 2500

\* C17: every scenario that models Eve (Error-with-Eve, Decoherence-Free,
\* Detailed) exposes in its result, next to the measured QBER, an expected
\* QBER that contains the theoretical contribution 0.25 * eve_fraction.
C17_EveScenariosExposeExpectedQber ==
    (/\ ScenarioReturned
     /\ res.fn \in {"simulate_error_with_eve", "simulate_decoherence_free",
                    "simulate_detailed"})
        => /\ "expected_qber" \in DOMAIN res.ret.summary
           /\ res.ret.summary.expected_qber
                  \in {25 * args.eve_fraction,
                       args.error_rate * 100 + 25 * args.eve_fraction}
           /\ "qber" \in DOMAIN res.ret

\* C18: the channel noise model and the eavesdropper model never modify the
\* sequence they are given: after the Eve stage and the noise stage Alice's
\* bit sequence is still the sequence that was drawn, whatever Eve and the
\* channel changed in their own copies, and the sifted key and the QBER are
\* computed against the drawn bits.
C18_InputsNotMutated ==
    ScenarioReturned =>
        /\ res.loc.alice_bits = res.loc.alice_drawn
        /\ SubsequenceAt(res.loc.key,
                         [i \in 1..Len(res.loc.alice_drawn) |-> Str(res.loc.alice_drawn[i])],
                         MatchSet(res.loc.alice_bases, res.loc.bob_bases))
        /\ LET M == MatchSet(res.loc.alice_bases, res.loc.bob_bases) IN
           M # {} => QEquals(res.ret.qber,
                             Cardinality(Mismatches(res.loc.alice_drawn, res.loc.bob_bits, M)),
                             Cardinality(M))

\* an Error-with-Eve run in which Eve changed a bit of her copy and the
\* channel flipped a bit of its copy
C18_Witness ==
    /\ res.fn = "simulate_error_with_eve"
    /\ res.raised = "none"
    /\ res.loc.eve_bits # res.loc.alice_drawn
    /\ res.loc.bob_bits # res.loc.eve_bits

\* C19: simulate_detailed processes min(qubit_count, 20) qubits when show_all
\* is not set and exactly qubit_count qubits when it is set; the result's
\* qubit_count, the number of per-position records and summary.total_qubits
\* all equal that processed count.
C19_DetailedCap ==
    (res.fn = "simulate_detailed" /\ res.raised = "none") =>
        LET processed == IF call.show_all THEN args.qubit_count
                         ELSE IF args.qubit_count <= 20 THEN args.qubit_count
                         ELSE 20
        IN  /\ Len(res.loc.alice_drawn) = processed
            /\ Len(res.loc.bob_bits) = processed
            /\ res.ret.qubit_count = processed
            /\ Len(res.ret.qubits) = processed
            /\ \A i \in 1..processed : res.ret.qubits[i].index = i - 1
            /\ res.ret.summary.total_qubits = processed

\* a detailed run of 21 qubits cut to 20 positions
C19_Witness ==
    /\ res.fn = "simulate_detailed"
    /\ res.raised = "none"
    /\ args.qubit_count = 21
    /\ ~call.show_all
    /\ Len(res.ret.qubits) = 20

\* C20: in the per-position records of simulate_detailed, eve_basis and
\* eve_measured are defined only where eve_intercepted is true: a position Eve
\* did not intercept has both undefined (None), and so has every position of
\* a run with eve_fraction = 0.
C20_EveFieldsOnlyWhenIntercepted ==
    (res.fn = "simulate_detailed" /\ res.raised = "none") =>
        \A i \in 1..Len(res.ret.qubits) :
            ~res.ret.qubits[i].eve_intercepted =>
                /\ res.ret.qubits[i].eve_basis = <<>>
                /\ res.ret.qubits[i].eve_measured = <<>>

\* C21 (as claimed): the result of an invocation depends only on its own
\* arguments and its own random draws; no invocation writes state that
\* another invocation uses, so running or seeding one simulation never
\* changes the random values or the result of another: what a scenario
\* invocation returns is the same whether or not another invocation ran
\* before it.
C21_InvocationsIndependent ==
    [][call'.fn \in ScenarioFns \cup {"simulate_bb84"}
       => \A n \in QubitCounts :
             /\ simulate_ideal(rng', n, Kwargs(args)).loc
                    = simulate_ideal(rng, n, Kwargs(args)).loc
             /\ simulate_error_with_eve(rng', n, args.error_rate, args.eve_fraction,
                                        Kwargs(args)).ret
                    = simulate_error_with_eve(rng, n, args.error_rate, args.eve_fraction,
                                              Kwargs(args)).ret]_vars

EveFns == {"simulate_error_with_eve", "simulate_decoherence_free", "simulate_detailed"}

\* the positions at which Eve's loop flips a coin: intercepted, and Eve's
\* basis differs from Alice's
CoinPositions(loc) ==
    {i \in 1..Len(loc.alice_drawn) :
        loc.eve_intercepts[i] /\ loc.eve_bases[i] # loc.alice_bases[i]}

\* the number of positions of S up to and including i
Rank(S, i) == Cardinality({j \in S : j <= i})

\* the k-th uniform draw after `off` words of generator state r landed below
\* the level p (in hundredths)
DrawBelow(r, off, k, p) == Word(r, off + k) * 50 < p

\* C22: in Error-with-Eve, Decoherence-Free and Detailed, eve_bits[i] is
\* 1 - alice_bits[i] exactly when position i is intercepted, Eve's basis
\* differs from Alice's and that position's fair coin landed on error; at
\* every other position eve_bits[i] = alice_bits[i].  With eve_fraction = 0,
\* eve_bits equals alice_bits.
C22_EveFlipsOnlyOnWrongBasisCoin ==
    [][(call'.fn \in EveFns /\ res'.raised = "none") =>
          LET loc == res'.loc
              n == Len(loc.alice_drawn)
              D == CoinPositions(loc)
          IN  /\ Len(loc.eve_bits) = n
              /\ \A i \in 1..n :
                    loc.eve_bits[i] =
                        IF i \in D /\ DrawBelow(rng, 4 * n, Rank(D, i), 50)
                        THEN 1 - loc.alice_drawn[i]
                        ELSE loc.alice_drawn[i]
              /\ args.eve_fraction = 0 => loc.eve_bits = loc.alice_drawn]_vars

\* a run in which Eve's coin flipped the bit at one wrong-basis interception,
\* left it at another, and a right-basis interception left it too
C22_Witness ==
    /\ res.fn \in EveFns
    /\ res.raised = "none"
    /\ \E i, j, k \in 1..Len(res.loc.alice_drawn) :
          /\ i \in CoinPositions(res.loc) /\ res.loc.eve_bits[i] # res.loc.alice_drawn[i]
          /\ j \in CoinPositions(res.loc) /\ res.loc.eve_bits[j] = res.loc.alice_drawn[j]
          /\ res.loc.eve_intercepts[k] /\ res.loc.eve_bases[k] = res.loc.alice_bases[k]

\* the channel noise stage applied to x with the Len(x) uniform draws that
\* follow `off` words of generator state r
NoiseOf(x, r, off, error_rate) ==
    [i \in 1..Len(x) |-> IF DrawBelow(r, off, i, error_rate) THEN 1 - x[i] ELSE x[i]]

\* C23: Bob's recorded bits in the four selectable scenarios are the output
\* of the stages of the composition table, at every position whether or not
\* the bases agree: Ideal bob_bits = alice_bits; Error-Only bob_bits =
\* noise(alice_bits); Error-with-Eve bob_bits = noise(eve_bits), the noise
\* drawn after Eve's stage; Decoherence-Free bob_bits = eve_bits for every
\* error_rate.
C23_BobBitsFollowComposition ==
    [][(call'.fn \in ScenarioFns /\ res'.raised = "none") =>
          LET loc == res'.loc
              n == Len(loc.alice_drawn)
          IN  /\ call'.fn = "simulate_ideal" => loc.bob_bits = loc.alice_drawn
              /\ call'.fn = "simulate_error_only" =>
                    loc.bob_bits = NoiseOf(loc.alice_drawn, rng, 3 * n, args.error_rate)
              /\ call'.fn = "simulate_error_with_eve" =>
                    loc.bob_bits = NoiseOf(loc.eve_bits, rng,
                                           5 * n + Cardinality(CoinPositions(loc)),
                                           args.error_rate)
              /\ call'.fn = "simulate_decoherence_free" =>
                    loc.bob_bits = loc.eve_bits]_vars

\* an Error-with-Eve run in which the channel flipped, at a position where
\* the bases differ, a bit that Eve had already flipped
C23_Witness ==
    /\ res.fn = "simulate_error_with_eve"
    /\ res.raised = "none"
    /\ \E i \in 1..Len(res.loc.alice_drawn) :
          /\ res.loc.alice_bases[i] # res.loc.bob_bases[i]
          /\ res.loc.eve_bits[i] # res.loc.alice_drawn[i]
          /\ res.loc.bob_bits[i] # res.loc.eve_bits[i]

\* the positions of a detailed run where Alice's and Bob's bases differ
MismatchSet(loc) ==
    {i \in 1..Len(loc.alice_drawn) : loc.alice_bases[i] # loc.bob_bases[i]}

\* C24: in the Detailed scenario Bob's bit at a position where the bases
\* match is the post-Eve, post-noise bit (Alice's bit with Eve's flip and the
\* channel flip each applied once); at a position where the bases differ it
\* is a random bit drawn for that position, whatever was transmitted.  Each
\* record's bases_match, bits_match and kept_in_key are alice_basis =
\* bob_basis, alice_bit = bob_bit and bases_match.
C24_DetailedBobMeasurement ==
    [][(call'.fn = "simulate_detailed" /\ res'.raised = "none") =>
          LET loc == res'.loc
              n == Len(loc.alice_drawn)
              D == CoinPositions(loc)
              W == MismatchSet(loc)
              sent == NoiseOf(loc.eve_bits, rng, 5 * n + Cardinality(D), args.error_rate)
          IN  /\ loc.final_bits = sent
              /\ \A i \in 1..n :
                    /\ i \notin W => loc.bob_bits[i] = sent[i]
                    /\ i \in W => loc.bob_bits[i]
                                      = Word(rng, 6 * n + Cardinality(D) + Rank(W, i)) % 2
                    /\ LET q == res'.ret.qubits[i] IN
                       /\ q.bases_match = (q.alice_basis = q.bob_basis)
                       /\ q.bases_match = (i \notin W)
                       /\ q.bits_match = (q.alice_bit = q.bob_measured)
                       /\ q.kept_in_key = q.bases_match
                       /\ q.alice_bit = loc.alice_drawn[i]
                       /\ q.bob_measured = loc.bob_bits[i]
                       /\ q.channel_error = (sent[i] # loc.eve_bits[i])]_vars

\* a detailed run with a matching position that carries both Eve's flip and
\* the channel's, and two mismatched positions with the same transmitted bit
\* where Bob measured different bits
C24_Witness ==
    /\ res.fn = "simulate_detailed"
    /\ res.raised = "none"
    /\ \E i, j, k \in 1..Len(res.loc.alice_drawn) :
          /\ res.ret.qubits[i].bases_match
          /\ res.ret.qubits[i].eve_caused_error
          /\ res.ret.qubits[i].channel_error
          /\ res.loc.bob_bits[i] = res.loc.alice_drawn[i]
          /\ ~res.ret.qubits[j].bases_match /\ ~res.ret.qubits[k].bases_match
          /\ res.loc.final_bits[j] = res.loc.final_bits[k]
          /\ res.loc.bob_bits[j] # res.loc.bob_bits[k]

SelectableFns == {"simulate_ideal", "simulate_error_only", "simulate_error_with_eve",
                  "simulate_decoherence_free"}

\* the arrays Bob could have recorded that agree with b at the positions of M
AgreeingOn(b, M) ==
    {x \in [1..Len(b) -> Bit] : \A i \in M : x[i] = b[i]}

\* C25: in Ideal, Error-Only, Error-with-Eve and Decoherence-Free the
\* reported sifted key and QBER are functions of the matching-basis positions
\* only: a run with the same Alice bits, the same two basis sequences and the
\* same Bob bits at the matching positions reports the same key and the same
\* QBER, whatever Bob's bits are at the mismatched positions.
C25_KeyAndQberIgnoreMismatched ==
    (res.fn \in SelectableFns /\ res.raised = "none") =>
        LET loc == res.loc
            M == MatchSet(loc.alice_bases, loc.bob_bases)
        IN  \A bob \in AgreeingOn(loc.bob_bits, M) :
                LET s == sift_key(loc.alice_bits, bob, loc.alice_bases, loc.bob_bases)
                    q == calculate_qber(loc.alice_bits, bob, s.value.mask)
                IN  /\ s.raised = "none" /\ q.raised = "none"
                    /\ s.value.key = loc.key
                    /\ Truncate(s.value.key) = res.ret.sifted_key
                    /\ q.value = res.ret.qber

\* an Error-only run with an error inside the sifted key and a flipped bit at
\* a position that sifting discards
C25_Witness ==
    /\ res.fn = "simulate_error_only"
    /\ res.raised = "none"
    /\ res.ret.qber.num > 0
    /\ QLt(res.ret.qber, 100)
    /\ \E i \in 1..Len(res.loc.alice_bits) :
          /\ res.loc.alice_bases[i] # res.loc.bob_bases[i]
          /\ res.loc.bob_bits[i] # res.loc.alice_bits[i]

\* the n bits np.random.randint(0, 2, n) gives after `off` words of state r
BitsAt(r, off, n) == [i \in 1..n |-> Word(r, off + i) % 2]

\* "Z"/"X" bases as the 0/1 values they were drawn as
BasisBits(bases) == [i \in 1..Len(bases) |-> IF bases[i] = "Z" THEN 0 ELSE 1]

\* C26: every scenario consumes the one generator stream in the stage order
\* Alice bits, Alice bases, Eve bases, Eve's interception flags and coins,
\* Bob bases, channel-noise draws (a stage the scenario does not apply is
\* skipped): each stage's values are the words that follow those of the
\* stages before it.  simulate_bb84 draws Alice bits, Alice bases, Bob bases
\* from the (re)seeded generator.
C26_FixedDrawOrder ==
    [][/\ (call'.fn \in ScenarioFns /\ res'.raised = "none") =>
             LET loc == res'.loc
                 n == Len(loc.alice_drawn)
             IN  /\ loc.alice_drawn = BitsAt(rng, 0, n)
                 /\ loc.alice_bases = BitsAt(rng, n, n)
                 /\ call'.fn = "simulate_ideal" =>
                       /\ loc.bob_bases = BitsAt(rng, 2 * n, n)
                       /\ rng' = Advance(rng, 3 * n)
                 /\ call'.fn = "simulate_error_only" =>
                       /\ loc.bob_bases = BitsAt(rng, 2 * n, n)
                       /\ loc.bob_bits = NoiseOf(loc.alice_drawn, rng, 3 * n, args.error_rate)
                       /\ rng' = Advance(rng, 4 * n)
                 /\ call'.fn \in EveFns =>
                       LET c == Cardinality(CoinPositions(loc)) IN
                       /\ loc.eve_bases = BitsAt(rng, 2 * n, n)
                       /\ \A i \in 1..n :
                             loc.eve_intercepts[i] = DrawBelow(rng, 3 * n, i, args.eve_fraction)
                       /\ loc.bob_bases = BitsAt(rng, 4 * n + c, n)
                       /\ call'.fn = "simulate_decoherence_free" =>
                             rng' = Advance(rng, 5 * n + c)
                       /\ call'.fn = "simulate_error_with_eve" =>
                             rng' = Advance(rng, 6 * n + c)
                       /\ call'.fn = "simulate_detailed" =>
                             /\ loc.final_bits
                                    = NoiseOf(loc.eve_bits, rng, 5 * n + c, args.error_rate)
                             /\ rng' = Advance(rng, 6 * n + c
                                                    + Cardinality(MismatchSet(loc)))
       /\ call'.fn = "simulate_bb84" =>
             LET n == args.qubit_count
                 r0 == IF args.seed # <<>> THEN np_random_seed(args.seed[1]) ELSE rng
             IN  /\ res'.alice_bits = BitsAt(r0, 0, n)
                 /\ BasisBits(res'.alice_bases) = BitsAt(r0, n, n)
                 /\ BasisBits(res'.bob_bases) = BitsAt(r0, 2 * n, n)
                 /\ rng' = Advance(r0, 3 * n)]_vars

\* an Error-with-Eve run in which every stage drew: Eve flipped coins, the
\* channel had a non-zero error rate, and the stage arrays all differ
C26_Witness ==
    /\ res.fn = "simulate_error_with_eve"
    /\ res.raised = "none"
    /\ CoinPositions(res.loc) # {}
    /\ args.error_rate > 0
    /\ res.loc.alice_drawn # res.loc.alice_bases
    /\ res.loc.alice_bases # res.loc.eve_bases
    /\ res.loc.eve_bases # res.loc.bob_bases
    /\ res.loc.bob_bits # res.loc.eve_bits

\* C27: apply_channel_error sets output bit i to 1 - bits[i] exactly when the
\* i-th uniform draw is strictly below error_rate and to bits[i] otherwise:
\* one draw per position, the same positions flipped whatever the bit values
\* are; with error_rate = 0 the output is the input for every outcome of the
\* draws.
C27_ChannelFlipsBelowRate ==
    [][call'.fn = "apply_channel_error" =>
          LET n == Len(args.qubits)
              out == res'.out
          IN  /\ Len(out.val) = n
              /\ \A i \in 1..n :
                    out.val[i] = IF DrawBelow(rng, 0, i, args.error_rate)
                                 THEN 1 - args.qubits[i] ELSE args.qubits[i]
              /\ rng' = Advance(rng, n)
              /\ \A other \in [1..n -> Bit] :
                    LET o == apply_channel_error(rng, other, args.error_rate) IN
                    /\ o.rng = rng'
                    /\ \A i \in 1..n :
                          (o.val[i] # other[i]) = (out.val[i] # args.qubits[i])
              /\ args.error_rate = 0 => out.val = args.qubits]_vars

\* a call with error_rate 0.05 on two bits, one flipped and one kept
C27_Witness ==
    /\ res.fn = "apply_channel_error"
    /\ args.error_rate = 5
    /\ Len(args.qubits) = 2
    /\ res.out.val[1] # args.qubits[1]
    /\ res.out.val[2] = args.qubits[2]

\* C28 (as claimed): with error_rate = 1 the channel is still probabilistic
\* per bit and is not a deterministic inversion: for a non-empty input some
\* outcome of the draws leaves some output bit equal to its input bit.
C28_FullRateNotAnInversion ==
    (/\ res.fn = "apply_channel_error"
     /\ args.error_rate = 100
     /\ Len(args.qubits) > 0)
        => \E r \in AllStreams :
              \E i \in 1..Len(args.qubits) :
                  apply_channel_error(r, args.qubits, 100).val[i] = args.qubits[i]

\* a read handler's answer has gone out
Answered(c) ==
    /\ clients[c].handler \in Handlers
    /\ clients[c].pc = "idle"
    /\ clients[c].resp.status # 0

\* C29: GET /results, /stats and /visualize_round/{i} answer 404 exactly when
\* no /run_bb84 call had stored its results by the time the handler held the
\* lock (nothing of run_bb84 after the store can fail, so the stores are the
\* successful completions), and never once one has; the slot is empty exactly
\* until the first store and, once filled, never returns to empty.
C29_NotFoundOnlyBeforeFirstRun ==
    /\ [](latest_results = None <=> history.last_write.seq = 0)
    /\ [](\A c \in Clients :
             Answered(c) => (clients[c].resp.status = 404 <=> clients[c].start.seq = 0))
    /\ [][latest_results # None => latest_results' # None]_vars

\* one read was answered 404 before any run, another was served from the
\* stored results afterwards
C29_Witness ==
    \E c, d \in Clients :
        /\ Answered(c) /\ clients[c].resp.status = 404
        /\ Answered(d) /\ clients[d].resp.status = 200
        /\ latest_results # None

\* client c's simulation raises in this step: it leaves "simulate" without
\* results to store
RaisesIn(c) ==
    /\ clients[c].pc = "simulate"
    /\ clients'[c] # clients[c]
    /\ clients'[c].pc # "write_acquire"

\* every field simulate_bb84 fills is there, one entry per qubit
CompleteResults(d) ==
    /\ d.raised = "none"
    /\ Len(d.alice_bits) = Len(d.circuits)
    /\ Len(d.alice_bases) = Len(d.circuits)
    /\ Len(d.bob_bases) = Len(d.circuits)
    /\ Len(d.bob_measurements) = Len(d.circuits)
    /\ Len(d.sifted_key_alice) = Len(d.sifted_key_bob)

\* C30: when the simulation raises during a /run_bb84 request the request is
\* answered HTTP 500 and that step leaves the latest-results slot (and the
\* record of the stores) exactly as it was; the slot is always empty or holds
\* the complete results of a simulation that returned; and a results object
\* is never modified once stored: as long as the slot holds the same object
\* its content is the same, and the copy its handler still holds equals it.
C30_FailedRunLeavesSlot ==
    /\ [][\A c \in Clients :
             RaisesIn(c) => /\ clients'[c].pc = "idle"
                            /\ clients'[c].resp.status = 500
                            /\ latest_results' = latest_results
                            /\ history'.last_write = history.last_write]_vars
    /\ [](latest_results # None => CompleteResults(latest_results.data))
    /\ [](\A c \in Clients :
             (clients[c].handler = "run_bb84" /\ clients[c].resp.status = 500)
                 => clients[c].results = None)
    /\ [][latest_results'.id = latest_results.id => latest_results' = latest_results]_vars
    /\ [](\A c \in Clients :
             clients[c].results.id = latest_results.id
                 => clients[c].results = latest_results)

\* a /run_bb84 request was answered 500 while the slot still holds the
\* results stored before the request arrived
C30_Witness ==
    \E c \in Clients :
        /\ clients[c].handler = "run_bb84"
        /\ clients[c].pc = "idle"
        /\ clients[c].resp.status = 500
        /\ clients[c].start.seq >= 1
        /\ clients[c].start = history.last_write
        /\ latest_results # None
        /\ latest_results.id = clients[c].start.id

====
